---- MODULE Spec2Model ----
(***************************************************************************)
(* Check-and-alert engine of the server health check bot: PerformCheck     *)
(* (app/checks/check.go), the JSON store (app/checks/storage.go) and the   *)
(* in-memory alert tracker (serverFailureCount / serverSendFaultMessage).  *)
(* Time is counted in whole hours; the zero time.Time is ZeroTime.         *)
(***************************************************************************)
EXTENDS Integers, Sequences, FiniteSets, TLC

\* ------------------------------------------------------------------ bounds
\* number of PerformCheck invocations explored when invocations may overlap
MaxCycles == 2
\* invocations explored one after another on a store of at most one target
MaxSeqCycles == 6
\* invocations explored one after another on a store of several targets
MaxPairCycles == 1
\* number of target steps explored when invocations may overlap
MaxOverlapSteps == 2
\* largest alertThreshold (ALERT_THRESHOLD) explored
MaxThreshold == 3
\* cron fires at hours StartTime + 24*d + o, d in 0..MaxDay, o in {0, 1}
MaxDay == 1
\* invocations explored one after another on the https target with its certificates
MaxSSLCycles == 2
\* chat commands handled, and invocations started, while commands are explored
MaxCmds == 1
MaxCmdCycles == 1
\* updates handled when the update loop is explored on its own
MaxUpdates == 2
\* invocations started, and commands handled between them, when a name is
\* removed and registered again
MaxReuseCycles == 2
MaxReuseCmds == 2
\* invocations started, and restarts of the process, when restarts are explored
MaxRestartCycles == 3
MaxRestarts == 1
\* invocations started when the steps between lock operations are explored
MaxLockCycles == 2
\* invocations started when overlapping invocations meet in the tracker
MaxRaceCycles == 3

\* ------------------------------------------------------- program constants
ZeroTime == 0
StartTime == ZeroTime + 1
DedupHours == 24
HoursPerDay == 24
DefaultSSLThreshold == 30

\* -------------------------------------------------------------- input sets
Names == {"a", "b"}
Procs == {"c1", "c2"}

\* a URL is <<scheme prefix, rest>>
URLOf(n) == IF n = "a" THEN <<"https://", "a.example">> ELSE <<"http://", "b.example">>

TimePointsTo(days) == {StartTime + HoursPerDay * d + o : d \in 0..days, o \in {0, 1}}
TimePoints == TimePointsTo(MaxDay)

\* response bodies and ExpectedContent values are sequences of characters
BodyHealthy == <<"i", "s", " ", "o", "k">>
BodyUpper == <<"O", "K">>
NoContent == <<>>
ContentOk == <<"o", "k">>

\* a ResponseTimeThreshold in milliseconds and latencies on either side of it
LimitMs == 200
FastMs == LimitMs - 100
SlowMs == LimitMs + 100

\* certificate NotAfter values seen by the TLS dial (ZeroTime: no certificate read)
CertSoon == StartTime + 20 * HoursPerDay
CertFar == StartTime + 40 * HoursPerDay

\* a per-record SSLExpiryThreshold in days, as /setsslthreshold stores it
SSLDays == 2

\* NotAfter values the TLS dial can return at hour t (ZeroTime: no certificate
\* read); the handshake rejects a certificate that has expired at t
CertsAt(t) ==
    {ZeroTime, t,
     t + SSLDays * HoursPerDay - 1, t + SSLDays * HoursPerDay,
     t + DefaultSSLThreshold * HoursPerDay - 1, t + DefaultSSLThreshold * HoursPerDay}

\* ------------------------------------------------------------ pure helpers
\* strings.Contains on character sequences
Contains(s, sub) ==
    \E i \in 0..(Len(s) - Len(sub)) : SubSeq(s, i + 1, i + Len(sub)) = sub

\* Go's int(x / 24) on a float: truncation toward zero
TruncDiv(a, b) == IF a >= 0 THEN a \div b ELSE -((-a) \div b)

\* the ratio without the factor 100
AvailabilityAsRatio(succ, total) == [num |-> succ, den |-> total]

\* float64(SuccessfulChecks) / float64(TotalChecks) * 100, kept as a fraction
AvailabilityOf(succ, total) == [num |-> succ * 100, den |-> total]
ZeroAvailability == [num |-> 0, den |-> 1]

\* the zero ServerCheck with Name and URL set (handleAddCommand's literal)
NewServerCheck(n, u) ==
    [Name |-> n, URL |-> u, LastFailure |-> ZeroTime, LastSuccess |-> ZeroTime,
     IsOk |-> FALSE, ExpectedContent |-> NoContent, ResponseTimeThreshold |-> 0,
     LastResponseTime |-> 0, SSLExpiryDate |-> ZeroTime, SSLExpiryThreshold |-> 0,
     LastSSLNotification |-> ZeroTime, Availability |-> ZeroAvailability,
     TotalChecks |-> 0, SuccessfulChecks |-> 0]

\* the zero CheckResult
ZeroResult ==
    [IsOk |-> FALSE, ResponseTime |-> 0, StatusCode |-> 0, ContentMatched |-> FALSE,
     SSLExpiryDate |-> ZeroTime, ErrorMessage |-> ""]

\* what the network answers to one probe: kind "reqErr" (http.NewRequest
\* fails), "connErr" (httpClient.Do fails) or "resp"; cert is the NotAfter
\* the separate TLS dial would read (ZeroTime when the dial fails)
NoResponse(k) ==
    [kind |-> k, status |-> 0, body |-> <<>>, readErr |-> FALSE, latency |-> 0, cert |-> ZeroTime]
HttpResponse(st, b, re, lat, c) ==
    [kind |-> "resp", status |-> st, body |-> b, readErr |-> re, latency |-> lat, cert |-> c]

\* durations are counted in milliseconds
MsPerSecond == 1000

\* check.go lines 52-57: the package's client before main configures it
DefaultHTTPClient == [Timeout |-> 10 * MsPerSecond, TLSHandshakeTimeout |-> 5 * MsPerSecond]

\* ConfigureHTTPClient line 77: timeout / 2 on an integer Duration
HalfTimeout(timeout) == timeout \div 2

\* ConfigureHTTPClient lines 74-77: the values the client holds afterwards
ConfiguredClient(timeout) ==
    [Timeout |-> timeout, TLSHandshakeTimeout |-> HalfTimeout(timeout)]

\* net/http: a timeout of zero means no timeout, otherwise the wait ends
\* with an error once it has lasted longer than the limit
TimedOut(limit, delay) == limit # 0 /\ delay > limit

\* an answer with its timing: handshake is how long the server takes over
\* the TLS handshake of the request, latency how long until the response
\* is there, dial how long the separate certificate dial takes to end
TimedResponse(st, h, lat, c, d) ==
    [kind |-> "resp", status |-> st, body |-> <<>>, readErr |-> FALSE, latency |-> lat,
     cert |-> c, handshake |-> h, dial |-> d]

\* checkServerStatus line 241, httpClient.Do: the transport gives up on a
\* TLS handshake (https only) longer than TLSHandshakeTimeout and the client
\* on a request longer than Timeout; both come back as an error of Do
httpClientDo(client, url, r) ==
    IF r.kind # "resp" THEN r
    ELSE IF url[1] = "https://" /\ TimedOut(client.TLSHandshakeTimeout, r.handshake)
      THEN [r EXCEPT !.kind = "connErr"]
    ELSE IF TimedOut(client.Timeout, r.latency)
      THEN [r EXCEPT !.kind = "connErr"]
    ELSE r

\* the TLS dial is made whatever the scheme of the URL
getSSLExpiryDateAnyScheme(url, r) == r.cert

\* getSSLExpiryDate: only for a URL with the literal prefix https://
getSSLExpiryDate(url, r) ==
    IF url[1] # "https://" THEN ZeroTime ELSE r.cert

\* only 200 counts as success
IsStatusOkOnly200(code) == code = 200

\* checkServerStatus line 254: status code is 2xx
IsStatusOk(code) == code >= 200 /\ code < 300

\* the certificate is read before the status code is looked at
checkServerStatusDialFirst(server, r) ==
    IF r.kind = "reqErr"
      THEN [ZeroResult EXCEPT !.ErrorMessage = "Failed to create request"]
    ELSE IF r.kind = "connErr"
      THEN [ZeroResult EXCEPT !.ErrorMessage = "Failed to get server status"]
    ELSE LET withResp == [ZeroResult EXCEPT !.ResponseTime = r.latency,
                                            !.StatusCode = r.status,
                                            !.SSLExpiryDate = getSSLExpiryDate(server.URL, r)] IN
      IF ~IsStatusOk(r.status)
        THEN [withResp EXCEPT !.ErrorMessage = "Status code is not successful"]
      ELSE IF server.ExpectedContent # NoContent /\ r.readErr
        THEN [withResp EXCEPT !.ErrorMessage = "Failed to read response body"]
      ELSE IF server.ExpectedContent # NoContent /\ ~Contains(r.body, server.ExpectedContent)
        THEN [withResp EXCEPT !.ErrorMessage = "Expected content not found in response"]
      ELSE [withResp EXCEPT !.ContentMatched = (server.ExpectedContent # NoContent),
                            !.IsOk = TRUE]

\* checkServerStatus(server) against the answer r
checkServerStatus(server, r) ==
    IF r.kind = "reqErr"
      THEN [ZeroResult EXCEPT !.ErrorMessage = "Failed to create request"]
    ELSE IF r.kind = "connErr"
      THEN [ZeroResult EXCEPT !.ErrorMessage = "Failed to get server status"]
    ELSE LET withResp == [ZeroResult EXCEPT !.ResponseTime = r.latency,
                                            !.StatusCode = r.status] IN
      IF ~IsStatusOk(r.status)
        THEN [withResp EXCEPT !.ErrorMessage = "Status code is not successful"]
      ELSE IF server.ExpectedContent # NoContent /\ r.readErr
        THEN [withResp EXCEPT !.ErrorMessage = "Failed to read response body"]
      ELSE IF server.ExpectedContent # NoContent /\ ~Contains(r.body, server.ExpectedContent)
        THEN [withResp EXCEPT !.ErrorMessage = "Expected content not found in response"]
      ELSE [withResp EXCEPT !.ContentMatched = (server.ExpectedContent # NoContent),
                            !.SSLExpiryDate = getSSLExpiryDate(server.URL, r),
                            !.IsOk = TRUE]

\* a warning is due again once 24 hours have passed
shouldSendAfterFullDay(lastNotification, t) ==
    lastNotification = ZeroTime \/ t - lastNotification >= DedupHours

\* shouldSendSSLNotification at clock value t
shouldSendSSLNotification(lastNotification, t) ==
    lastNotification = ZeroTime \/ t - lastNotification > DedupHours

\* TotalChecks counted in the failure branch only
UpdateStatsTotalOnFailure(sc, res, t) ==
    LET total == IF res.IsOk THEN sc.TotalChecks ELSE sc.TotalChecks + 1
        succ == IF res.IsOk THEN sc.SuccessfulChecks + 1 ELSE sc.SuccessfulChecks
    IN [sc EXCEPT !.TotalChecks = total,
                  !.SuccessfulChecks = succ,
                  !.LastSuccess = IF res.IsOk THEN t ELSE @,
                  !.LastFailure = IF res.IsOk THEN @ ELSE t,
                  !.IsOk = res.IsOk,
                  !.LastResponseTime = res.ResponseTime,
                  !.Availability = IF total > 0 THEN AvailabilityOf(succ, total) ELSE @]

\* every probe stamps both LastSuccess and LastFailure
UpdateStatsStampsBoth(sc, res, t) ==
    LET total == sc.TotalChecks + 1
        succ == IF res.IsOk THEN sc.SuccessfulChecks + 1 ELSE sc.SuccessfulChecks
    IN [sc EXCEPT !.TotalChecks = total,
                  !.SuccessfulChecks = succ,
                  !.LastSuccess = t,
                  !.LastFailure = t,
                  !.IsOk = res.IsOk,
                  !.LastResponseTime = res.ResponseTime,
                  !.Availability = IF total > 0 THEN AvailabilityOf(succ, total) ELSE @]

\* PerformCheck lines 113-127: fold the probe outcome into the record
UpdateStats(sc, res, t) ==
    LET total == sc.TotalChecks + 1
        succ == IF res.IsOk THEN sc.SuccessfulChecks + 1 ELSE sc.SuccessfulChecks
    IN [sc EXCEPT !.TotalChecks = total,
                  !.SuccessfulChecks = succ,
                  !.LastSuccess = IF res.IsOk THEN t ELSE @,
                  !.LastFailure = IF res.IsOk THEN @ ELSE t,
                  !.IsOk = res.IsOk,
                  !.LastResponseTime = res.ResponseTime,
                  !.Availability = IF total > 0 THEN AvailabilityOf(succ, total) ELSE @]

\* checkSSLExpiry: the threshold in force and the truncated days to expiry
SSLThresholdOf(sc, global) ==
    IF sc.SSLExpiryThreshold > 0 THEN sc.SSLExpiryThreshold ELSE global
DaysToExpiry(sc, t) == TruncDiv(sc.SSLExpiryDate - t, HoursPerDay)
SSLWarningDue(sc, global, t) ==
    /\ ~(DaysToExpiry(sc, t) >= SSLThresholdOf(sc, global) \/ DaysToExpiry(sc, t) < 0)
    /\ shouldSendSSLNotification(sc.LastSSLNotification, t)


\* map assignment m[key] = val (adds the key when it is absent)
Put(m, key, val) ==
    [k \in (DOMAIN m) \cup {key} |-> IF k = key THEN val ELSE m[k]]

EmptyData == [k \in {} |-> NewServerCheck("a", URLOf("a"))]

\* delete(m, key)
Without(m, key) == [k \in (DOMAIN m) \ {key} |-> m[k]]

\* the chat commands that read, change and save the collection
LoadingOps == {"add", "remove", "setresponsetime", "setcontent", "setsslthreshold"}

\* an updateFn that sets its field on a fresh record of the same name and URL
EditFresh(op, rec) ==
    IF op = "setresponsetime"
      THEN [NewServerCheck(rec.Name, rec.URL) EXCEPT !.ResponseTimeThreshold = FastMs]
    ELSE IF op = "setcontent"
      THEN [NewServerCheck(rec.Name, rec.URL) EXCEPT !.ExpectedContent = BodyUpper]
    ELSE [NewServerCheck(rec.Name, rec.URL) EXCEPT !.SSLExpiryThreshold = SSLDays]

\* the updateFn of /setresponsetime, /setcontent and /setsslthreshold
EditOf(op, rec) ==
    IF op = "setresponsetime" THEN [rec EXCEPT !.ResponseTimeThreshold = FastMs]
    ELSE IF op = "setcontent" THEN [rec EXCEPT !.ExpectedContent = BodyUpper]
    ELSE [rec EXCEPT !.SSLExpiryThreshold = SSLDays]

\* the handler goes on after its load: /add of a new name, the others of a known one
CmdApplies(op, n, data) ==
    IF op = "add" THEN n \notin DOMAIN data ELSE n \in DOMAIN data

\* a handler that builds the collection anew around the record it touches
CmdChangeAlone(op, n, data) ==
    IF op = "add" THEN Put(EmptyData, n, NewServerCheck(n, URLOf(n)))
    ELSE IF op = "remove" THEN Without(data, n)
    ELSE Put(EmptyData, n, EditOf(op, data[n]))

\* /add stores the record under the given name with another name in its Name field
CmdChangeMisnamed(op, n, data) ==
    IF op = "add"
      THEN Put(data, n, NewServerCheck(CHOOSE m \in Names : m # n, URLOf(n)))
    ELSE IF op = "remove" THEN Without(data, n)
    ELSE Put(data, n, EditOf(op, data[n]))

\* what the handler does to the collection it loaded
CmdChange(op, n, data) ==
    IF op = "add" THEN Put(data, n, NewServerCheck(n, URLOf(n)))
    ELSE IF op = "remove" THEN Without(data, n)
    ELSE Put(data, n, EditOf(op, data[n]))

\* user names are sequences of characters; unicode.ToLower on the letters used
ToLower(c) ==
    IF c = "A" THEN "a" ELSE IF c = "B" THEN "b" ELSE IF c = "D" THEN "d"
    ELSE IF c = "O" THEN "o" ELSE c

\* strings.EqualFold: equal under case folding, character by character
EqualFold(s, t) ==
    /\ Len(s) = Len(t)
    /\ \A i \in 1..Len(s) : ToLower(s[i]) = ToLower(t[i])

\* the --super list of the running bot
SuperUsers == {<<"A", "d">>, <<"/", "b", "o">>}

\* SuperUser.IsSuper
IsSuper(userName) ==
    \E super \in SuperUsers :
        EqualFold(userName, super) \/ EqualFold(<<"/">> \o userName, super)

\* update.Message.From / query.From: a user with a user name, or nil
User(userName) == [nil |-> FALSE, UserName |-> userName]
NoUser == [nil |-> TRUE, UserName |-> <<>>]
UserNames == {<<"a", "D">>, <<"B", "o">>, <<"d">>, <<"e", "v">>, <<>>}
Senders == {User(u) : u \in UserNames} \cup {NoUser}

\* a sender test that only asks for a sender
SenderPresent(from) == ~from.nil

\* processUpdate line 64 and handleCallbackQuery line 310: the update is handled
Authorised(from) == ~from.nil /\ IsSuper(from.UserName)
Admin == User(<<"a", "D">>)

\* the updates that reach a handler which may change the collection: command
\* messages, and the inline "remove" button
UpdateKinds == {"message", "callback"}
CallbackOps == {"remove"}

\* one notification handed to bot.Send; ok tells whether Send returned no error
Note(kind, ok) == [kind |-> kind, ok |-> ok]
Kinds(ns) == {x.kind : x \in ns}

\* ------------------------------------------------------------------- state
VARIABLES
    store,                   \* decoded content of data/checks.json
    fileOk,                  \* FALSE when the file is truncated or partly written
    alive,                   \* FALSE once log.Fatalf has ended the process
    serverFailureCount,      \* name -> consecutive failures (absent key = 0)
    serverSendFaultMessage,  \* name -> alert active (absent key = FALSE)
    globalSSLExpiryThreshold,
    alertThreshold,          \* the alertThreshold argument of PerformCheck
    restarts,                \* times the process has been started again
    httpClient,              \* the package's HTTP client: Timeout, TLSHandshakeTimeout (ms)
    now,                     \* wall clock, hours
    cycles,                  \* PerformCheck invocations started so far
    pc,                      \* per invocation: position in PerformCheck
    checksData,              \* per invocation: the collection it loaded
    todo,                    \* per invocation: keys the range loop has not visited
    serverCheck,             \* per invocation: the loop variable
    checkResult,             \* per invocation: result of the last probe
    checkTime,               \* per invocation: time.Now() taken after the probe
    count,                   \* per invocation: count read in handleServerDown
    answer,                  \* per invocation: what the network answered to the probe
    notes,                   \* per invocation: notifications of the current step
    saveErrs,                \* per invocation: names whose save failed in this cycle
    pre,                     \* per invocation: tracker and record before the step
    loaded,                  \* per invocation: the collection as loaded
    probes,                  \* per invocation: probes issued per name in this cycle
    failRun,                 \* name -> length of the current run of failed probes (of this process)
    lastDU,                  \* name -> last down/up notification this process handed to bot.Send
    sslSentAt,               \* name -> time of the last delivered SSL warning
    sslMinGap,               \* name -> smallest gap between two delivered SSL warnings
    sslFailedAt,             \* name -> time of the last SSL warning whose Send failed
    faultSeen,               \* name -> reads of wasFault = true since the alert was last armed
    stateMu,                 \* holder of the tracker lock stateMu ("" when free)
    mutex,                   \* holder of the store lock mutex ("" when free)
    cmd                      \* the chat-command handler: position, command, loaded data

vars == <<store, fileOk, alive, serverFailureCount, serverSendFaultMessage,
          globalSSLExpiryThreshold, alertThreshold, restarts, httpClient, now, cycles, pc,
          checksData,
          todo, serverCheck, checkResult, checkTime, count, answer, notes, saveErrs,
          pre, loaded, probes, failRun, lastDU, sslSentAt, sslMinGap, sslFailedAt, faultSeen,
          stateMu, mutex, cmd>>

trackerVars == <<serverFailureCount, serverSendFaultMessage>>
fileVars == <<store, fileOk>>
histVars == <<failRun, lastDU, sslSentAt, sslMinGap, sslFailedAt, faultSeen>>
lockVars == <<stateMu, mutex>>
confVars == <<globalSSLExpiryThreshold, alertThreshold, restarts, httpClient>>

NoGap == 400 * DedupHours
NoNote == Note("none", TRUE)
NoAnswer == NoResponse("none")
NoRecord == NewServerCheck("", <<"", "">>)
NoPre == [name |-> "", count |-> 0, fault |-> FALSE, failRun |-> 0, lastDU |-> NoNote,
          rec |-> NoRecord]
NoProbes == [n \in Names |-> 0]
NoHolder == ""
\* the update loop has handled no update yet
NoCmd == [pc |-> "idle", op |-> "none", name |-> "", data |-> EmptyData, reply |-> "",
          inCycle |-> FALSE, served |-> 0, kind |-> "message", from |-> NoUser,
          read |-> EmptyData]

\* the records a store file left by an earlier run may hold: freshly added
\* servers, with a threshold or an expected content set by commands
InitRecord(n, rtt, content) ==
    [NewServerCheck(n, URLOf(n)) EXCEPT !.ResponseTimeThreshold = rtt,
                                        !.ExpectedContent = content]
InitStores ==
    {[n \in S |-> IF n = "a" THEN InitRecord(n, LimitMs, NoContent)
                             ELSE InitRecord(n, 0, ContentOk)] : S \in SUBSET Names}

\* records with the ExpectedContent and URL variety the probe is checked on
ProbeStores ==
    {[n \in {"a"} |-> [NewServerCheck(n, u) EXCEPT !.ExpectedContent = c]] :
        u \in {URLOf("a"), URLOf("b")}, c \in {NoContent, ContentOk, BodyUpper}}

InitWith(stores) ==
    /\ store \in stores
    /\ fileOk = TRUE
    /\ alive = TRUE
    /\ serverFailureCount = [n \in Names |-> 0]
    /\ serverSendFaultMessage = [n \in Names |-> FALSE]
    /\ globalSSLExpiryThreshold = DefaultSSLThreshold
    /\ alertThreshold \in 1..MaxThreshold
    /\ restarts = 0
    /\ httpClient = DefaultHTTPClient
    /\ now = StartTime
    /\ cycles = 0
    /\ pc = [p \in Procs |-> "idle"]
    /\ checksData = [p \in Procs |-> EmptyData]
    /\ todo = [p \in Procs |-> {}]
    /\ serverCheck = [p \in Procs |-> NoRecord]
    /\ checkResult = [p \in Procs |-> ZeroResult]
    /\ checkTime = [p \in Procs |-> ZeroTime]
    /\ count = [p \in Procs |-> 0]
    /\ answer = [p \in Procs |-> NoAnswer]
    /\ notes = [p \in Procs |-> {}]
    /\ saveErrs = [p \in Procs |-> {}]
    /\ pre = [p \in Procs |-> NoPre]
    /\ loaded = [p \in Procs |-> EmptyData]
    /\ probes = [p \in Procs |-> NoProbes]
    /\ failRun = [n \in Names |-> 0]
    /\ lastDU = [n \in Names |-> NoNote]
    /\ sslSentAt = [n \in Names |-> ZeroTime]
    /\ sslMinGap = [n \in Names |-> NoGap]
    /\ sslFailedAt = [n \in Names |-> ZeroTime]
    /\ faultSeen = [n \in Names |-> 0]
    /\ stateMu = NoHolder
    /\ mutex = NoHolder
    /\ cmd = NoCmd

\* the https target with the global or a per-record SSL threshold
SSLStores ==
    {[n \in {"a"} |-> [InitRecord(n, LimitMs, NoContent) EXCEPT !.SSLExpiryThreshold = d]] :
        d \in {0, SSLDays}}

\* one target, registered with an https:// or with an http:// URL
CertStores ==
    {[n \in {"a"} |-> [InitRecord(n, LimitMs, NoContent) EXCEPT !.URL = u]] :
        u \in {URLOf("a"), URLOf("b")}}

Init == InitWith(InitStores)
\* ALERT_THRESHOLD 1: a failed probe alerts, the next success recovers
InitSSL == InitWith(SSLStores) /\ alertThreshold = 1
\* one target; ALERT_THRESHOLD 1: a failed probe alerts, the next success recovers
InitLock ==
    /\ InitWith({[n \in {"a"} |-> InitRecord(n, LimitMs, NoContent)]})
    /\ alertThreshold = 1
InitProbe == InitWith(ProbeStores)
\* ALERT_THRESHOLD 1, as for the https target alone
InitCert == InitWith(CertStores) /\ alertThreshold = 1
\* one target; a failed probe alerts, or the second in a row does
InitReuse ==
    /\ InitWith({[n \in {"a"} |-> InitRecord(n, LimitMs, NoContent)]})
    /\ alertThreshold <= MaxReuseCycles
\* one target; thresholds that leave failures to count after a restart
InitRestart ==
    /\ InitWith({[n \in {"a"} |-> InitRecord(n, LimitMs, NoContent)]})
    /\ alertThreshold < MaxRestartCycles
\* the update loop does not read ALERT_THRESHOLD
InitChat == InitWith(InitStores) /\ alertThreshold = 1
\* one target; thresholds that leave two invocations for the crossing
InitRace ==
    /\ InitWith({[n \in {"a"} |-> InitRecord(n, LimitMs, NoContent)]})
    /\ alertThreshold < MaxRaceCycles

\* answers of the network explored when invocations may overlap
CycleResponses ==
    {NoResponse("connErr")}
      \cup {HttpResponse(200, BodyHealthy, FALSE, FastMs, c) : c \in {ZeroTime, CertSoon, CertFar}}

\* the answers explored when invocations run one after another
SeqResponses ==
    {NoResponse("connErr"), HttpResponse(500, BodyUpper, FALSE, SlowMs, ZeroTime)}
      \cup {HttpResponse(200, BodyHealthy, FALSE, lat, ZeroTime) : lat \in {FastMs, SlowMs}}

\* the answers explored at hour t for the https target: a refused connection,
\* a rejected status from a server whose certificate expires in a day, and
\* successes with each certificate the dial can read
SSLResponses(t) ==
    {NoResponse("connErr"),
     HttpResponse(500, BodyUpper, FALSE, FastMs, t + HoursPerDay),
     HttpResponse(200, BodyHealthy, FALSE, SlowMs, ZeroTime)}
      \cup {HttpResponse(200, BodyHealthy, FALSE, FastMs, c) : c \in CertsAt(t)}

\* the answers explored next to chat commands
CmdResponses == {NoResponse("connErr"), HttpResponse(200, BodyHealthy, FALSE, FastMs, ZeroTime)}

\* the answers explored between the locks
LockResponses ==
    {NoResponse("connErr"), HttpResponse(200, BodyHealthy, FALSE, SlowMs, ZeroTime)}

\* the answers one probe is checked on
ProbeResponses ==
    {NoResponse("reqErr"), NoResponse("connErr")}
      \cup {HttpResponse(st, b, re, FastMs, c) :
              st \in {199, 200, 299, 300}, b \in {BodyHealthy, BodyUpper, <<>>},
              re \in BOOLEAN, c \in {ZeroTime, CertSoon}}

\* ----------------------------------------------------------------- actions
\* no invocation is between its probe and its save
BetweenSteps == \A p \in Procs : pc[p] \in {"idle", "loop"}

\* cron fires at hour t; one target step (bounded by the HTTP timeout) is
\* short against the hour the clock counts in, so no hour passes inside it
ClockAt(t) ==
    /\ t >= now
    /\ t > now => BetweenSteps
    /\ now' = t

\* PerformCheck lines 102-107 at hour t: ReadChecksData of a decodable file
LoadCycle(p, t) ==
    /\ alive /\ pc[p] = "idle" /\ fileOk
    /\ ClockAt(t)
    /\ pc' = [pc EXCEPT ![p] = "loop"]
    /\ checksData' = [checksData EXCEPT ![p] = store]
    /\ loaded' = [loaded EXCEPT ![p] = store]
    /\ todo' = [todo EXCEPT ![p] = DOMAIN store]
    /\ cycles' = cycles + 1
    /\ UNCHANGED <<serverCheck, checkResult, checkTime, count, answer, notes, saveErrs, pre, probes>>
    /\ UNCHANGED <<fileVars, alive, trackerVars, confVars, histVars, lockVars, cmd>>

\* ReadChecksData lines 45-57 at hour t: log.Fatalf on a file that cannot be decoded
ReadFatal(p, t) ==
    /\ alive /\ pc[p] = "idle" /\ ~fileOk
    /\ ClockAt(t)
    /\ alive' = FALSE
    /\ cycles' = cycles + 1
    /\ UNCHANGED <<pc, checksData, todo, serverCheck, checkResult, checkTime, count, answer,
                   notes, saveErrs, pre, loaded, probes>>
    /\ UNCHANGED <<fileVars, trackerVars, confVars, histVars, lockVars, cmd>>

\* PerformCheck lines 109-127: next key of the range loop, probe, statistics
ProbeWith(p, answers) ==
    /\ alive /\ pc[p] = "loop"
    /\ \E k \in todo[p], r \in answers :
         LET sc == checksData[p][k]
             res == checkServerStatus(sc, r)
         IN /\ todo' = [todo EXCEPT ![p] = @ \ {k}]
            /\ answer' = [answer EXCEPT ![p] = r]
            /\ checkResult' = [checkResult EXCEPT ![p] = res]
            /\ checkTime' = [checkTime EXCEPT ![p] = now]
            /\ serverCheck' = [serverCheck EXCEPT ![p] = UpdateStats(sc, res, now)]
            /\ pre' = [pre EXCEPT ![p] = [name |-> sc.Name,
                                          count |-> serverFailureCount[sc.Name],
                                          fault |-> serverSendFaultMessage[sc.Name],
                                          failRun |-> failRun[sc.Name],
                                          lastDU |-> lastDU[sc.Name],
                                          rec |-> sc]]
            /\ probes' = [probes EXCEPT ![p][k] = @ + 1]
            /\ failRun' = [failRun EXCEPT ![sc.Name] = IF res.IsOk THEN 0 ELSE @ + 1]
    /\ notes' = [notes EXCEPT ![p] = {}]
    /\ pc' = [pc EXCEPT ![p] = "ssl"]
    /\ UNCHANGED <<checksData, count, saveErrs, loaded>>
    /\ UNCHANGED <<fileVars, alive, trackerVars, confVars, now, cycles, lastDU, sslSentAt, sslMinGap,
                   sslFailedAt, faultSeen, lockVars, cmd>>

Probe(p) == ProbeWith(p, CycleResponses)
SSLProbe(p) == ProbeWith(p, SSLResponses(now))
CmdProbe(p) == ProbeWith(p, CmdResponses)
LockProbe(p) == ProbeWith(p, LockResponses)
SeqProbe(p) == ProbeWith(p, SeqResponses)
OneProbe(p) == ProbeWith(p, ProbeResponses)

\* the notification time is recorded whether or not Send succeeded
SSLNotifiedAtAlways(ok, last, t) == t

\* checkSSLExpiry lines 172-177: a Send error returns before LastSSLNotification is set
SSLNotifiedAt(ok, last, t) == IF ok THEN t ELSE last

\* PerformCheck lines 129-136 with checkSSLExpiry, then the write-back by Name
CheckSSL(p) ==
    /\ alive /\ pc[p] = "ssl"
    /\ LET res == checkResult[p]
           sc0 == serverCheck[p]
           sc1 == [sc0 EXCEPT !.SSLExpiryDate = res.SSLExpiryDate]
           n == sc0.Name
       IN IF res.SSLExpiryDate # ZeroTime /\ SSLWarningDue(sc1, globalSSLExpiryThreshold, now)
            THEN \E ok \in BOOLEAN :
                   LET sc2 == [sc1 EXCEPT !.LastSSLNotification = SSLNotifiedAt(ok, @, checkTime[p])]
                   IN /\ notes' = [notes EXCEPT ![p] = @ \cup {Note("ssl", ok)}]
                      /\ serverCheck' = [serverCheck EXCEPT ![p] = sc2]
                      /\ checksData' = [checksData EXCEPT ![p] = Put(@, n, sc2)]
                      /\ sslSentAt' = IF ok THEN [sslSentAt EXCEPT ![n] = now] ELSE sslSentAt
                      /\ sslMinGap' = IF ok /\ sslSentAt[n] # ZeroTime /\ now - sslSentAt[n] < sslMinGap[n]
                                        THEN [sslMinGap EXCEPT ![n] = now - sslSentAt[n]]
                                        ELSE sslMinGap
                      /\ sslFailedAt' = IF ok THEN sslFailedAt ELSE [sslFailedAt EXCEPT ![n] = now]
            ELSE LET sc2 == IF res.SSLExpiryDate # ZeroTime THEN sc1 ELSE sc0
                 IN /\ serverCheck' = [serverCheck EXCEPT ![p] = sc2]
                    /\ checksData' = [checksData EXCEPT ![p] = Put(@, n, sc2)]
                    /\ UNCHANGED <<notes, sslSentAt, sslMinGap, sslFailedAt>>
    /\ pc' = [pc EXCEPT ![p] = IF checkResult[p].IsOk THEN "up" ELSE "down"]
    /\ answer' = [answer EXCEPT ![p] = NoAnswer]
    /\ UNCHANGED <<todo, checkResult, checkTime, count, saveErrs, pre, loaded, probes>>
    /\ UNCHANGED <<fileVars, alive, trackerVars, confVars, now, cycles, failRun, lastDU, faultSeen,
                   lockVars, cmd>>

\* the alert waits until the count exceeds the threshold
ThresholdExceeded(c, threshold) == c > threshold

\* the alert goes out one failure early
ThresholdReachedEarly(c, threshold) == c + 1 >= threshold

\* handleServerDown line 188: the alert condition
ThresholdReached(c, threshold) == c >= threshold

\* handleServerDown lines 182-188: first locked section, then the threshold test
ServerDownCount(p) ==
    /\ alive /\ pc[p] = "down"
    /\ LET n == serverCheck[p].Name
           c == serverFailureCount[n] + 1
       IN /\ serverFailureCount' = [serverFailureCount EXCEPT ![n] = c]
          /\ count' = [count EXCEPT ![p] = c]
          /\ pc' = [pc EXCEPT ![p] = IF ThresholdReached(c, alertThreshold) THEN "alert" ELSE "save"]
    /\ UNCHANGED <<checksData, todo, serverCheck, checkResult, checkTime, answer, notes,
                   saveErrs, pre, loaded, probes>>
    /\ UNCHANGED <<fileVars, alive, serverSendFaultMessage, confVars, now, cycles, histVars,
                   lockVars, cmd>>

\* the alert is armed only when the message went out
ArmOnlyWhenSent(ok) == ok

\* handleServerDown lines 190-197: a Send error is logged, the alert is armed anyway
ArmAfterSend(ok) == TRUE

\* the counter keeps running after an alert
CountKeptAfterAlert(c) == c

\* handleServerDown line 196: the counter restarts after an alert
CountAfterAlert(c) == 0

\* handleServerDown lines 189-197: send the down message, then arm and reset
ServerDownAlert(p) ==
    /\ alive /\ pc[p] = "alert"
    /\ LET n == serverCheck[p].Name
       IN \E ok \in BOOLEAN :
            /\ notes' = [notes EXCEPT ![p] = @ \cup {Note("down", ok)}]
            /\ lastDU' = [lastDU EXCEPT ![n] = Note("down", ok)]
            /\ IF ArmAfterSend(ok)
                 THEN /\ serverSendFaultMessage' = [serverSendFaultMessage EXCEPT ![n] = TRUE]
                      /\ serverFailureCount' = [serverFailureCount EXCEPT ![n] = CountAfterAlert(@)]
                      /\ faultSeen' = [faultSeen EXCEPT ![n] = 0]
                 ELSE UNCHANGED <<trackerVars, faultSeen>>
    /\ pc' = [pc EXCEPT ![p] = "save"]
    /\ UNCHANGED <<checksData, todo, serverCheck, checkResult, checkTime, count, answer,
                   saveErrs, pre, loaded, probes>>
    /\ UNCHANGED <<fileVars, alive, confVars, now, cycles, failRun, sslSentAt, sslMinGap,
                   sslFailedAt, lockVars, cmd>>

\* the threshold is compared without testing that it is set
SlowResponseAnyThreshold(sc, res) == res.ResponseTime > sc.ResponseTimeThreshold

\* handleServerUp line 202: is the slow-response warning due
SlowResponse(sc, res) ==
    sc.ResponseTimeThreshold > 0 /\ res.ResponseTime > sc.ResponseTimeThreshold

\* a recovery is due whenever failures were counted
WasFaultByCount(flag, failures) == failures > 0

\* handleServerUp line 211: a recovery is due when the alert flag is set
WasFault(flag, failures) == flag

\* handleServerUp lines 201-224
ServerUp(p) ==
    /\ alive /\ pc[p] = "up"
    /\ LET n == serverCheck[p].Name
           wasFault == WasFault(serverSendFaultMessage[n], serverFailureCount[n])
       IN /\ \E okSlow, okUp \in BOOLEAN :
               /\ notes' = [notes EXCEPT ![p] =
                              @ \cup (IF SlowResponse(serverCheck[p], checkResult[p])
                                        THEN {Note("slow", okSlow)} ELSE {})
                                \cup (IF wasFault THEN {Note("up", okUp)} ELSE {})]
               /\ lastDU' = IF wasFault THEN [lastDU EXCEPT ![n] = Note("up", okUp)] ELSE lastDU
          /\ faultSeen' = IF wasFault THEN [faultSeen EXCEPT ![n] = @ + 1] ELSE faultSeen
          /\ serverSendFaultMessage' = IF wasFault
                                         THEN [serverSendFaultMessage EXCEPT ![n] = FALSE]
                                         ELSE serverSendFaultMessage
          /\ serverFailureCount' = [serverFailureCount EXCEPT ![n] = 0]
    /\ pc' = [pc EXCEPT ![p] = "save"]
    /\ UNCHANGED <<checksData, todo, serverCheck, checkResult, checkTime, count, answer,
                   saveErrs, pre, loaded, probes>>
    /\ UNCHANGED <<fileVars, alive, confVars, now, cycles, failRun, sslSentAt, sslMinGap,
                   sslFailedAt, lockVars, cmd>>

\* SaveChecksData: "ok", "createErr" (os.Create fails, file untouched) or
\* "writeErr" (file truncated by os.Create, Encode fails)
SaveOutcomes == {"ok", "createErr", "writeErr"}
FileAfterSave(data, outcome, oldStore, oldOk) ==
    IF outcome = "ok" THEN [store |-> data, fileOk |-> TRUE]
    ELSE IF outcome = "createErr" THEN [store |-> oldStore, fileOk |-> oldOk]
    ELSE [store |-> EmptyData, fileOk |-> FALSE]

\* a save error ends the loop
TodoDroppedOnSaveError(keys, outcome) == IF outcome = "ok" THEN keys ELSE {}

\* PerformCheck lines 146-149: a save error is logged and the loop continues
TodoAfterSave(keys, outcome) == keys

\* PerformCheck lines 144-149: save, log an error and continue with the loop
SaveWith(p, outcomes) ==
    /\ alive /\ pc[p] = "save"
    /\ \E outcome \in outcomes :
         LET f == FileAfterSave(checksData[p], outcome, store, fileOk)
             n == serverCheck[p].Name
         IN /\ store' = f.store
            /\ fileOk' = f.fileOk
            /\ saveErrs' = [saveErrs EXCEPT ![p] = IF outcome = "ok" THEN @ \ {n} ELSE @ \cup {n}]
            /\ todo' = [todo EXCEPT ![p] = TodoAfterSave(@, outcome)]
    /\ pc' = [pc EXCEPT ![p] = "loop"]
    /\ UNCHANGED <<checksData, serverCheck, checkResult, checkTime, count, answer, notes,
                   pre, loaded, probes>>
    /\ UNCHANGED <<alive, trackerVars, confVars, now, cycles, histVars, lockVars, cmd>>

Save(p) == SaveWith(p, SaveOutcomes)
\* the file stays writable while the certificates are explored
SSLSave(p) == SaveWith(p, {"ok"})

\* PerformCheck lines 150-151: the range loop is exhausted, the invocation returns
EndCycle(p) ==
    /\ alive /\ pc[p] = "loop" /\ todo[p] = {}
    /\ pc' = [pc EXCEPT ![p] = "idle"]
    /\ checksData' = [checksData EXCEPT ![p] = EmptyData]
    /\ loaded' = [loaded EXCEPT ![p] = EmptyData]
    /\ serverCheck' = [serverCheck EXCEPT ![p] = NoRecord]
    /\ checkResult' = [checkResult EXCEPT ![p] = ZeroResult]
    /\ checkTime' = [checkTime EXCEPT ![p] = ZeroTime]
    /\ count' = [count EXCEPT ![p] = 0]
    /\ notes' = [notes EXCEPT ![p] = {}]
    /\ saveErrs' = [saveErrs EXCEPT ![p] = {}]
    /\ pre' = [pre EXCEPT ![p] = NoPre]
    /\ probes' = [probes EXCEPT ![p] = NoProbes]
    /\ UNCHANGED <<todo, answer, fileVars, alive, trackerVars, confVars, now, cycles, histVars,
                   lockVars, cmd>>

\* cron fires PerformCheck in a goroutine of its own: invocations may overlap
StartCycle(p) ==
    /\ cycles < MaxCycles
    /\ (cycles + 1) * Cardinality(DOMAIN store) <= MaxOverlapSteps
    /\ \E t \in TimePoints : LoadCycle(p, t) \/ ReadFatal(p, t)

\* the cron interval exceeds the duration of a cycle: one invocation at a
\* time, all within the same hour
SeqCycleBound(targets) == IF targets <= 1 THEN MaxSeqCycles ELSE MaxPairCycles
SeqStartCycle(p) ==
    /\ cycles < SeqCycleBound(Cardinality(DOMAIN store))
    /\ \A q \in Procs : pc[q] = "idle"
    /\ p = "c1"
    /\ (LoadCycle(p, now) \/ ReadFatal(p, now))

\* PerformCheck lines 110-131 with checkSSLExpiry line 159: the clock passes
\* an hour boundary between the TLS dial of the probe and time.Until
HourPasses(p) ==
    /\ alive /\ pc[p] = "ssl" /\ checkTime[p] = now
    /\ now' = now + 1
    /\ UNCHANGED <<pc, checksData, todo, serverCheck, checkResult, checkTime, count, answer,
                   notes, saveErrs, pre, loaded, probes, cycles>>
    /\ UNCHANGED <<fileVars, alive, trackerVars, confVars, histVars, lockVars, cmd>>

\* one invocation at a time on the https target, at the hours cron fires
SSLStartCycle(p) ==
    /\ cycles < MaxSSLCycles
    /\ \A q \in Procs : pc[q] = "idle"
    /\ p = "c1"
    /\ \E t \in TimePoints : LoadCycle(p, t)

\* some PerformCheck invocation is between its load and its return
CycleRunning == \E p \in Procs : pc[p] # "idle"

cycleVars == <<pc, checksData, todo, serverCheck, checkResult, checkTime, count, answer,
               notes, saveErrs, pre, loaded, probes, cycles>>

\* a handler up to its ReadChecksData and its change of the loaded collection;
\* "Server already exists" / "not exists" / "not found" end the handler
\* the inline "remove" button on a name that is not stored sends nothing
UpdateLoad(bound, kind, from, op, n) ==
    /\ alive /\ cmd.pc = "idle" /\ cmd.served < bound /\ fileOk
    /\ Authorised(from)
    /\ kind = "callback" => op \in CallbackOps
    /\ cmd' = IF CmdApplies(op, n, store)
                THEN [pc |-> "loaded", op |-> op, name |-> n, data |-> CmdChange(op, n, store),
                      reply |-> "", inCycle |-> FALSE, served |-> cmd.served + 1,
                      kind |-> kind, from |-> from, read |-> store]
                ELSE [pc |-> "idle", op |-> op, name |-> n, data |-> EmptyData,
                      reply |-> IF kind = "callback" THEN ""
                                ELSE IF op = "add" THEN "exists" ELSE "notfound",
                      inCycle |-> CycleRunning, served |-> cmd.served + 1,
                      kind |-> kind, from |-> from, read |-> EmptyData]
    /\ UNCHANGED <<cycleVars, fileVars, alive, trackerVars, confVars, now, histVars, lockVars>>

CmdLoad(op, n) == UpdateLoad(MaxCmds, "message", Admin, op, n)

\* ReadChecksData lines 45-57 in a handler: log.Fatalf on a file that cannot be decoded
UpdateReadFatal(bound) ==
    /\ alive /\ cmd.pc = "idle" /\ cmd.served < bound /\ ~fileOk
    /\ alive' = FALSE
    /\ UNCHANGED <<cycleVars, fileVars, trackerVars, confVars, now, histVars, lockVars, cmd>>

CmdReadFatal == UpdateReadFatal(MaxCmds)

\* what the handler sends after its SaveChecksData returned: the command
\* handlers test the error, the inline "remove" button drops it (line 327)
\* and sends "Server ... removed"
ReplyAfterSave(kind, outcome) ==
    IF kind = "callback" THEN "done"
    ELSE IF outcome = "ok" THEN "done" ELSE "failed"

\* the handler's SaveChecksData and its reply
CmdSave ==
    /\ alive /\ cmd.pc = "loaded"
    /\ \E outcome \in SaveOutcomes :
         LET f == FileAfterSave(cmd.data, outcome, store, fileOk)
         IN /\ store' = f.store
            /\ fileOk' = f.fileOk
            /\ cmd' = [cmd EXCEPT !.pc = "idle", !.data = EmptyData, !.read = EmptyData,
                                  !.reply = ReplyAfterSave(cmd.kind, outcome),
                                  !.inCycle = CycleRunning]
    /\ UNCHANGED <<cycleVars, alive, trackerVars, confVars, now, histVars, lockVars>>

\* handleRemoveAllCommand: saves an empty collection without loading
UpdateRemoveAll(bound, from) ==
    /\ alive /\ cmd.pc = "idle" /\ cmd.served < bound
    /\ Authorised(from)
    /\ \E outcome \in SaveOutcomes :
         LET f == FileAfterSave(EmptyData, outcome, store, fileOk)
         IN /\ store' = f.store
            /\ fileOk' = f.fileOk
            /\ cmd' = [pc |-> "idle", op |-> "removeall", name |-> "", data |-> EmptyData,
                       reply |-> IF outcome = "ok" THEN "done" ELSE "failed",
                       inCycle |-> CycleRunning, served |-> cmd.served + 1,
                       kind |-> "message", from |-> from, read |-> EmptyData]
    /\ UNCHANGED <<cycleVars, alive, trackerVars, confVars, now, histVars, lockVars>>

CmdRemoveAll == UpdateRemoveAll(MaxCmds, Admin)

\* processUpdate lines 63-66 and handleCallbackQuery lines 305-312: an update
\* whose sender is missing or not a superuser ends before any handler; a
\* callback query has been answered by bot.Request by then, which sends no
\* message to the chat
UpdateIgnored(bound, kind, from, op, n) ==
    /\ alive /\ cmd.pc = "idle" /\ cmd.served < bound
    /\ ~Authorised(from)
    /\ kind = "callback" => ~from.nil /\ op \in CallbackOps
    /\ cmd' = [pc |-> "idle", op |-> op, name |-> n, data |-> EmptyData, reply |-> "",
               inCycle |-> CycleRunning, served |-> cmd.served + 1,
               kind |-> kind, from |-> from, read |-> EmptyData]
    /\ UNCHANGED <<cycleVars, fileVars, alive, trackerVars, confVars, now, histVars, lockVars>>

\* the update loop handles one update at a time
Command ==
    \/ \E op \in LoadingOps, n \in Names : CmdLoad(op, n)
    \/ CmdReadFatal
    \/ CmdSave
    \/ CmdRemoveAll

\* the update loop on its own: ListenTelegramUpdates hands every update of
\* the channel to processUpdate, one after the other
ChatOps == LoadingOps \cup {"removeall"}
Update ==
    \/ \E kind \in UpdateKinds, from \in Senders, op \in LoadingOps, n \in Names :
         UpdateLoad(MaxUpdates, kind, from, op, n)
    \/ UpdateReadFatal(MaxUpdates)
    \/ CmdSave
    \/ \E from \in Senders : UpdateRemoveAll(MaxUpdates, from)
    \/ \E kind \in UpdateKinds, from \in Senders, op \in ChatOps, n \in Names :
         UpdateIgnored(MaxUpdates, kind, from, op, n)

\* one invocation at a time next to the update loop
CmdStartCycle(p) ==
    /\ cycles < MaxCmdCycles
    /\ \A q \in Procs : pc[q] = "idle"
    /\ p = "c1"
    /\ (LoadCycle(p, now) \/ ReadFatal(p, now))

\* a name is removed and registered again between two invocations
ReuseOps == {"remove", "add"}
ReuseStartCycle(p) ==
    /\ cycles < MaxReuseCycles
    /\ \A q \in Procs : pc[q] = "idle"
    /\ cmd.pc = "idle"
    /\ p = "c1"
    /\ (LoadCycle(p, now) \/ ReadFatal(p, now))
\* the invocations' saves succeed
ReuseSave(p) == SaveWith(p, {"ok"})
ReuseCommand ==
    \/ \E op \in ReuseOps, n \in Names :
         ~CycleRunning /\ UpdateLoad(MaxReuseCmds, "message", Admin, op, n)
    \/ ~CycleRunning /\ UpdateReadFatal(MaxReuseCmds)
    \/ CmdSave

\* the tracker entries survive the restart
CountKeptAtStart(c) == c
FlagKeptAtStart(f) == f

\* check.go lines 50-51: a starting process has two empty maps
CountAtStart(c) == 0
FlagAtStart(f) == FALSE

\* the process is stopped (signal, kill, crash) at any point and main runs
\* again: package variables are initialised anew, invocations and handlers in
\* flight are gone, InitStorage leaves an existing data/checks.json alone
Restart ==
    /\ restarts < MaxRestarts
    /\ restarts' = restarts + 1
    /\ alive' = TRUE
    /\ serverFailureCount' = [n \in Names |-> CountAtStart(serverFailureCount[n])]
    /\ serverSendFaultMessage' = [n \in Names |-> FlagAtStart(serverSendFaultMessage[n])]
    /\ globalSSLExpiryThreshold' = DefaultSSLThreshold
    /\ pc' = [p \in Procs |-> "idle"]
    /\ checksData' = [p \in Procs |-> EmptyData]
    /\ todo' = [p \in Procs |-> {}]
    /\ serverCheck' = [p \in Procs |-> NoRecord]
    /\ checkResult' = [p \in Procs |-> ZeroResult]
    /\ checkTime' = [p \in Procs |-> ZeroTime]
    /\ count' = [p \in Procs |-> 0]
    /\ answer' = [p \in Procs |-> NoAnswer]
    /\ notes' = [p \in Procs |-> {}]
    /\ saveErrs' = [p \in Procs |-> {}]
    /\ pre' = [p \in Procs |-> NoPre]
    /\ loaded' = [p \in Procs |-> EmptyData]
    /\ probes' = [p \in Procs |-> NoProbes]
    /\ failRun' = [n \in Names |-> 0]
    /\ lastDU' = [n \in Names |-> NoNote]
    /\ faultSeen' = [n \in Names |-> 0]
    /\ cmd' = [NoCmd EXCEPT !.served = cmd.served]
    /\ UNCHANGED <<fileVars, alertThreshold, httpClient, now, cycles, sslSentAt, sslMinGap,
                   sslFailedAt, lockVars>>

\* one invocation at a time, the process restarted in between or in the middle
RestartStartCycle(p) ==
    /\ cycles < MaxRestartCycles
    /\ \A q \in Procs : pc[q] = "idle"
    /\ p = "c1"
    /\ LoadCycle(p, now)

\* ---------------------------------------------- the steps between the locks
stepVars == <<checksData, todo, serverCheck, checkResult, checkTime, answer, saveErrs, pre,
              loaded, probes>>

\* between the locks the environment is kept healthy: Telegram accepts every
\* message and the disk every write
LockSendOutcomes == {TRUE}
LockSaveOutcomes == {"ok"}

\* the lock is not looked at
LockNeverTaken(holder) == TRUE

\* sync.Mutex.Lock returns once nobody holds the lock
LockFree(holder) == holder = NoHolder

\* PerformCheck lines 103-105: log.Printf formats serverFailureCount and
\* serverSendFaultMessage; stateMu is not taken
LogMapsUpTo(p, bound) ==
    /\ alive /\ pc[p] = "idle" /\ cycles < bound
    /\ pc' = [pc EXCEPT ![p] = "logMaps"]
    /\ cycles' = cycles + 1
    /\ UNCHANGED <<stepVars, count, notes, fileVars, alive, trackerVars, confVars, now,
                   histVars, lockVars, cmd>>

LogMaps(p) == LogMapsUpTo(p, MaxLockCycles)
RaceLogMaps(p) == LogMapsUpTo(p, MaxRaceCycles)

\* PerformCheck line 107: the maps are logged, ReadChecksData is called
LogMapsDone(p) ==
    /\ alive /\ pc[p] = "logMaps"
    /\ pc' = [pc EXCEPT ![p] = "wantRead"]
    /\ UNCHANGED <<stepVars, count, notes, cycles, fileVars, alive, trackerVars, confVars, now,
                   histVars, lockVars, cmd>>

\* ReadChecksData line 42: mutex.Lock()
ReadLock(p) ==
    /\ alive /\ pc[p] = "wantRead" /\ LockFree(mutex)
    /\ mutex' = p
    /\ pc' = [pc EXCEPT ![p] = "reading"]
    /\ UNCHANGED <<stepVars, count, notes, cycles, fileVars, alive, trackerVars, confVars, now,
                   histVars, stateMu, cmd>>

\* ReadChecksData lines 43-59: open, decode (log.Fatalf on an error), unlock
ReadUnlock(p) ==
    /\ alive /\ pc[p] = "reading"
    /\ mutex' = NoHolder
    /\ IF fileOk
         THEN /\ pc' = [pc EXCEPT ![p] = "loop"]
              /\ checksData' = [checksData EXCEPT ![p] = store]
              /\ loaded' = [loaded EXCEPT ![p] = store]
              /\ todo' = [todo EXCEPT ![p] = DOMAIN store]
              /\ UNCHANGED alive
         ELSE /\ alive' = FALSE
              /\ UNCHANGED <<pc, checksData, loaded, todo>>
    /\ UNCHANGED <<serverCheck, checkResult, checkTime, answer, saveErrs, pre, probes,
                   count, notes, cycles, fileVars, trackerVars, confVars, now, histVars,
                   stateMu, cmd>>

\* handleServerDown line 182: stateMu.Lock()
DownLock(p) ==
    /\ alive /\ pc[p] = "down" /\ LockFree(stateMu)
    /\ stateMu' = p
    /\ pc' = [pc EXCEPT ![p] = "counting"]
    /\ UNCHANGED <<stepVars, count, notes, cycles, fileVars, alive, trackerVars, confVars, now,
                   histVars, mutex, cmd>>

\* the lock is kept until the function returns
HolderKeptAfterCount(p) == p

\* handleServerDown line 185: stateMu.Unlock()
HolderAfterCount(p) == NoHolder

\* handleServerDown lines 183-188: increment, read, unlock, threshold test
DownCount(p) ==
    /\ alive /\ pc[p] = "counting"
    /\ LET n == serverCheck[p].Name
           c == serverFailureCount[n] + 1
       IN /\ serverFailureCount' = [serverFailureCount EXCEPT ![n] = c]
          /\ count' = [count EXCEPT ![p] = c]
          /\ pc' = [pc EXCEPT ![p] = IF ThresholdReached(c, alertThreshold)
                                       THEN "sendDown" ELSE "wantSave"]
    /\ stateMu' = HolderAfterCount(p)
    /\ UNCHANGED <<stepVars, notes, cycles, fileVars, alive, serverSendFaultMessage, confVars,
                   now, histVars, mutex, cmd>>

\* handleServerDown lines 189-192: bot.Send of the down message
SendDown(p) ==
    /\ alive /\ pc[p] = "sendDown"
    /\ \E ok \in LockSendOutcomes :
         /\ notes' = [notes EXCEPT ![p] = @ \cup {Note("down", ok)}]
         /\ lastDU' = [lastDU EXCEPT ![serverCheck[p].Name] = Note("down", ok)]
    /\ pc' = [pc EXCEPT ![p] = "wantArm"]
    /\ UNCHANGED <<stepVars, count, cycles, fileVars, alive, trackerVars, confVars, now,
                   failRun, sslSentAt, sslMinGap, sslFailedAt, faultSeen, lockVars, cmd>>

\* handleServerDown line 194: stateMu.Lock()
ArmLock(p) ==
    /\ alive /\ pc[p] = "wantArm" /\ LockFree(stateMu)
    /\ stateMu' = p
    /\ pc' = [pc EXCEPT ![p] = "arming"]
    /\ UNCHANGED <<stepVars, count, notes, cycles, fileVars, alive, trackerVars, confVars, now,
                   histVars, mutex, cmd>>

\* handleServerDown lines 195-197: arm the alert, restart the counter, unlock
Arm(p) ==
    /\ alive /\ pc[p] = "arming"
    /\ LET n == serverCheck[p].Name
       IN /\ serverSendFaultMessage' = [serverSendFaultMessage EXCEPT ![n] = TRUE]
          /\ serverFailureCount' = [serverFailureCount EXCEPT ![n] = CountAfterAlert(@)]
          /\ faultSeen' = [faultSeen EXCEPT ![n] = 0]
    /\ stateMu' = NoHolder
    /\ pc' = [pc EXCEPT ![p] = "wantSave"]
    /\ UNCHANGED <<stepVars, count, notes, cycles, fileVars, alive, confVars, now,
                   failRun, lastDU, sslSentAt, sslMinGap, sslFailedAt, mutex, cmd>>

\* handleServerUp lines 202-208: bot.Send of the slow-response warning when due
SendSlow(p) ==
    /\ alive /\ pc[p] = "up"
    /\ \E ok \in LockSendOutcomes :
         notes' = [notes EXCEPT ![p] = @ \cup (IF SlowResponse(serverCheck[p], checkResult[p])
                                                 THEN {Note("slow", ok)} ELSE {})]
    /\ pc' = [pc EXCEPT ![p] = "wantClear"]
    /\ UNCHANGED <<stepVars, count, cycles, fileVars, alive, trackerVars, confVars, now,
                   histVars, lockVars, cmd>>

\* handleServerUp line 210: stateMu.Lock()
ClearLock(p) ==
    /\ alive /\ pc[p] = "wantClear" /\ LockFree(stateMu)
    /\ stateMu' = p
    /\ pc' = [pc EXCEPT ![p] = "clearing"]
    /\ UNCHANGED <<stepVars, count, notes, cycles, fileVars, alive, trackerVars, confVars, now,
                   histVars, mutex, cmd>>

\* handleServerUp line 211: wasFault := serverSendFaultMessage[name]
ReadFault(p) ==
    /\ alive /\ pc[p] = "clearing"
    /\ LET n == serverCheck[p].Name
           wasFault == WasFault(serverSendFaultMessage[n], serverFailureCount[n])
       IN /\ faultSeen' = IF wasFault THEN [faultSeen EXCEPT ![n] = @ + 1] ELSE faultSeen
          /\ pc' = [pc EXCEPT ![p] = IF wasFault THEN "clearFault" ELSE "clearCount"]
    /\ UNCHANGED <<stepVars, count, notes, cycles, fileVars, alive, trackerVars, confVars, now,
                   failRun, lastDU, sslSentAt, sslMinGap, sslFailedAt, lockVars, cmd>>

\* handleServerUp lines 212-216: clear the flag when it was set, zero the counter, unlock
Clear(p) ==
    /\ alive /\ pc[p] \in {"clearFault", "clearCount"}
    /\ LET n == serverCheck[p].Name
           wasFault == pc[p] = "clearFault"
       IN /\ serverSendFaultMessage' = IF wasFault
                                         THEN [serverSendFaultMessage EXCEPT ![n] = FALSE]
                                         ELSE serverSendFaultMessage
          /\ serverFailureCount' = [serverFailureCount EXCEPT ![n] = 0]
          /\ pc' = [pc EXCEPT ![p] = IF wasFault THEN "sendUp" ELSE "wantSave"]
    /\ stateMu' = NoHolder
    /\ UNCHANGED <<stepVars, count, notes, cycles, fileVars, alive, confVars, now,
                   histVars, mutex, cmd>>

\* handleServerUp lines 218-223: bot.Send of the recovery message
SendUp(p) ==
    /\ alive /\ pc[p] = "sendUp"
    /\ \E ok \in LockSendOutcomes :
         /\ notes' = [notes EXCEPT ![p] = @ \cup {Note("up", ok)}]
         /\ lastDU' = [lastDU EXCEPT ![serverCheck[p].Name] = Note("up", ok)]
    /\ pc' = [pc EXCEPT ![p] = "wantSave"]
    /\ UNCHANGED <<stepVars, count, cycles, fileVars, alive, trackerVars, confVars, now,
                   failRun, sslSentAt, sslMinGap, sslFailedAt, faultSeen, lockVars, cmd>>

\* SaveChecksData line 23: mutex.Lock()
SaveLock(p) ==
    /\ alive /\ pc[p] = "wantSave" /\ LockFree(mutex)
    /\ mutex' = p
    /\ pc' = [pc EXCEPT ![p] = "writing"]
    /\ UNCHANGED <<stepVars, count, notes, cycles, fileVars, alive, trackerVars, confVars, now,
                   histVars, stateMu, cmd>>

\* SaveChecksData lines 24-38 and PerformCheck lines 146-149: create, encode, unlock
SaveUnlock(p) ==
    /\ alive /\ pc[p] = "writing"
    /\ \E outcome \in LockSaveOutcomes :
         LET f == FileAfterSave(checksData[p], outcome, store, fileOk)
             n == serverCheck[p].Name
         IN /\ store' = f.store
            /\ fileOk' = f.fileOk
            /\ saveErrs' = [saveErrs EXCEPT ![p] = IF outcome = "ok" THEN @ \ {n} ELSE @ \cup {n}]
            /\ todo' = [todo EXCEPT ![p] = TodoAfterSave(@, outcome)]
    /\ mutex' = NoHolder
    /\ pc' = [pc EXCEPT ![p] = "loop"]
    /\ UNCHANGED <<checksData, serverCheck, checkResult, checkTime, answer, pre, loaded, probes,
                   count, notes, cycles, alive, trackerVars, confVars, now, histVars,
                   stateMu, cmd>>

\* processUpdate: a command that loads the collection is received
CmdWantsRead(op, n) ==
    /\ alive /\ cmd.pc = "idle" /\ cmd.served < MaxCmds
    /\ cmd' = [pc |-> "wantRead", op |-> op, name |-> n, data |-> EmptyData, reply |-> "",
               inCycle |-> FALSE, served |-> cmd.served + 1,
               kind |-> "message", from |-> Admin, read |-> EmptyData]
    /\ UNCHANGED <<cycleVars, fileVars, alive, trackerVars, confVars, now, histVars, lockVars>>

\* ReadChecksData line 42 in a handler: mutex.Lock()
CmdReadLock ==
    /\ alive /\ cmd.pc = "wantRead" /\ LockFree(mutex)
    /\ mutex' = "cmd"
    /\ cmd' = [cmd EXCEPT !.pc = "reading"]
    /\ UNCHANGED <<cycleVars, fileVars, alive, trackerVars, confVars, now, histVars, stateMu>>

\* ReadChecksData lines 43-59 in a handler, then the handler's existence test
\* and its change of the loaded collection
CmdReadUnlock ==
    /\ alive /\ cmd.pc = "reading"
    /\ mutex' = NoHolder
    /\ IF ~fileOk
         THEN alive' = FALSE /\ UNCHANGED cmd
         ELSE /\ UNCHANGED alive
              /\ cmd' = IF CmdApplies(cmd.op, cmd.name, store)
                          THEN [cmd EXCEPT !.pc = "wantSave", !.read = store,
                                           !.data = CmdChange(cmd.op, cmd.name, store)]
                          ELSE [cmd EXCEPT !.pc = "idle",
                                           !.reply = IF cmd.op = "add" THEN "exists" ELSE "notfound",
                                           !.inCycle = CycleRunning]
    /\ UNCHANGED <<cycleVars, fileVars, trackerVars, confVars, now, histVars, stateMu>>

\* handleRemoveAllCommand lines 195-199: an empty collection is to be saved
CmdWantsRemoveAll ==
    /\ alive /\ cmd.pc = "idle" /\ cmd.served < MaxCmds
    /\ cmd' = [pc |-> "wantSave", op |-> "removeall", name |-> "", data |-> EmptyData,
               reply |-> "", inCycle |-> FALSE, served |-> cmd.served + 1,
               kind |-> "message", from |-> Admin, read |-> EmptyData]
    /\ UNCHANGED <<cycleVars, fileVars, alive, trackerVars, confVars, now, histVars, lockVars>>

\* SaveChecksData line 23 in a handler: mutex.Lock()
CmdSaveLock ==
    /\ alive /\ cmd.pc = "wantSave" /\ LockFree(mutex)
    /\ mutex' = "cmd"
    /\ cmd' = [cmd EXCEPT !.pc = "writing"]
    /\ UNCHANGED <<cycleVars, fileVars, alive, trackerVars, confVars, now, histVars, stateMu>>

\* SaveChecksData lines 24-38 in a handler, then the handler's reply
CmdSaveUnlock ==
    /\ alive /\ cmd.pc = "writing"
    /\ \E outcome \in LockSaveOutcomes :
         LET f == FileAfterSave(cmd.data, outcome, store, fileOk)
         IN /\ store' = f.store
            /\ fileOk' = f.fileOk
            /\ cmd' = [cmd EXCEPT !.pc = "idle", !.data = EmptyData, !.read = EmptyData,
                                  !.reply = IF outcome = "ok" THEN "done" ELSE "failed",
                                  !.inCycle = CycleRunning]
    /\ mutex' = NoHolder
    /\ UNCHANGED <<cycleVars, alive, trackerVars, confVars, now, histVars, stateMu>>

\* the commands explored between the locks
LockOps == {"remove"}

\* one PerformCheck invocation, lock operation by lock operation
LockBody(p) ==
    \/ LogMapsDone(p) \/ ReadLock(p) \/ ReadUnlock(p)
    \/ LockProbe(p) \/ CheckSSL(p)
    \/ DownLock(p) \/ DownCount(p) \/ SendDown(p) \/ ArmLock(p) \/ Arm(p)
    \/ SendSlow(p) \/ ClearLock(p) \/ ReadFault(p) \/ Clear(p) \/ SendUp(p)
    \/ SaveLock(p) \/ SaveUnlock(p) \/ EndCycle(p)
LockSteps(p) == LogMaps(p) \/ LockBody(p)
\* the invocations alone, without the update loop
RaceSteps(p) == RaceLogMaps(p) \/ LockBody(p)

\* one command handler, lock operation by lock operation
LockCommand ==
    \/ \E op \in LockOps, n \in Names : CmdWantsRead(op, n)
    \/ CmdReadLock \/ CmdReadUnlock
    \/ CmdWantsRemoveAll
    \/ CmdSaveLock \/ CmdSaveUnlock

\* one invocation that stops after its probe
OneLoad(p) ==
    /\ cycles = 0
    /\ p = "c1"
    /\ LoadCycle(p, now)

\* the steps of one target after its probe, up to the save
TargetStep(p) ==
    \/ CheckSSL(p)
    \/ ServerDownCount(p)
    \/ ServerDownAlert(p)
    \/ ServerUp(p)
    \/ EndCycle(p)

AfterProbe(p) == TargetStep(p) \/ Save(p)

Next ==
    \/ \E p \in Procs : StartCycle(p)
    \/ \E p \in Procs : Probe(p)
    \/ \E p \in Procs : AfterProbe(p)

NextSeq ==
    \/ \E p \in Procs : SeqStartCycle(p)
    \/ \E p \in Procs : SeqProbe(p)
    \/ \E p \in Procs : AfterProbe(p)

NextRace == \E p \in Procs : RaceSteps(p)

NextSSL ==
    \/ \E p \in Procs : SSLStartCycle(p)
    \/ \E p \in Procs : SSLProbe(p)
    \/ \E p \in Procs : HourPasses(p)
    \/ \E p \in Procs : TargetStep(p)
    \/ \E p \in Procs : SSLSave(p)

NextCmd ==
    \/ \E p \in Procs : CmdStartCycle(p)
    \/ \E p \in Procs : CmdProbe(p)
    \/ \E p \in Procs : AfterProbe(p)
    \/ Command

NextChat == Update

NextReuse ==
    \/ \E p \in Procs : ReuseStartCycle(p)
    \/ \E p \in Procs : CmdProbe(p)
    \/ \E p \in Procs : TargetStep(p)
    \/ \E p \in Procs : ReuseSave(p)
    \/ ReuseCommand

NextRestart ==
    \/ \E p \in Procs : RestartStartCycle(p)
    \/ \E p \in Procs : CmdProbe(p)
    \/ \E p \in Procs : TargetStep(p)
    \/ \E p \in Procs : ReuseSave(p)
    \/ Restart

NextLock ==
    \/ \E p \in Procs : LockSteps(p)
    \/ LockCommand

NextProbe ==
    \/ \E p \in Procs : OneLoad(p)
    \/ \E p \in Procs : OneProbe(p)

Spec == Init /\ [][Next]_vars
SpecSeq == Init /\ [][NextSeq]_vars
SpecProbe == InitProbe /\ [][NextProbe]_vars
SpecSSL == InitSSL /\ [][NextSSL]_vars
SpecCert == InitCert /\ [][NextSSL]_vars
SpecCmd == Init /\ [][NextCmd]_vars
SpecChat == InitChat /\ [][NextChat]_vars
SpecReuse == InitReuse /\ [][NextReuse]_vars
SpecRestart == InitRestart /\ [][NextRestart]_vars
SpecLock == InitLock /\ [][NextLock]_vars
SpecRace == InitRace /\ [][NextRace]_vars

\* ------------------------------------------------- the client's timeouts
\* the PerformCheck invocations explored with timed answers
MaxTimedCycles == 1

\* values of the HTTP_TIMEOUT option (seconds): a short one, the default, and
\* the one of TestConfigureHttpClient
TimeoutSeconds == {1, 10, 15}

\* main line 52: time.Duration(opts.HTTPTimeout) * time.Second
TimeoutOption(sec) == sec * MsPerSecond

\* the delays a server is explored with: a short one, and one just above
\* each timeout the client can be given
HandshakeDelays ==
    {FastMs} \cup UNION {{HalfTimeout(TimeoutOption(sec)), HalfTimeout(TimeoutOption(sec)) + 1} :
                            sec \in TimeoutSeconds}
LateDelays == {TimeoutOption(sec) + 1 : sec \in TimeoutSeconds}
DialDelays == {FastMs} \cup {HalfTimeout(TimeoutOption(sec)) + 1 : sec \in TimeoutSeconds}
                       \cup LateDelays

\* a refused connection, and successful answers with every timing: the
\* response never comes before the handshake of its request has ended
TimedResponses ==
    {NoResponse("connErr")}
      \cup UNION {{TimedResponse(200, h, lat, c, d) :
                     lat \in {l \in {h + FastMs} \cup LateDelays : l >= h},
                     c \in {ZeroTime, CertSoon},
                     d \in DialDelays} : h \in HandshakeDelays}

\* main line 52, ConfigureHTTPClient lines 70-80, before cron and the update
\* loop are started: under stateMu, both timeouts of the package's client
ConfigureHTTPClient(timeout) ==
    /\ alive /\ cycles = 0 /\ BetweenSteps /\ cmd.pc = "idle"
    /\ stateMu = NoHolder
    /\ httpClient' = ConfiguredClient(timeout)
    /\ UNCHANGED <<fileVars, alive, trackerVars, globalSSLExpiryThreshold, alertThreshold,
                   restarts, now, cycles, cycleVars, histVars, lockVars, cmd>>

\* how long the TLS handshake of the request of checkServerStatus lasted
HandshakeTook(client, url, r) ==
    IF r.kind # "resp" \/ url[1] # "https://" THEN 0
    ELSE IF TimedOut(client.TLSHandshakeTimeout, r.handshake) THEN client.TLSHandshakeTimeout
    ELSE r.handshake

\* how long httpClient.Do of checkServerStatus lasted
RequestTook(client, url, r) ==
    IF r.kind # "resp" THEN 0
    ELSE IF url[1] = "https://" /\ TimedOut(client.TLSHandshakeTimeout, r.handshake)
      THEN client.TLSHandshakeTimeout
    ELSE IF TimedOut(client.Timeout, r.latency) THEN client.Timeout
    ELSE r.latency

\* getSSLExpiryDate line 297: tls.Dial is given a tls.Config and no Dialer,
\* deadline or context, so it lasts as long as the server makes it last; it
\* is reached on the success path of an https target only
DialTook(client, server, r) ==
    IF checkServerStatus(server, httpClientDo(client, server.URL, r)).IsOk
         /\ server.URL[1] = "https://"
      THEN r.dial
      ELSE 0

\* PerformCheck lines 109-127 with the request made through httpClient
TimedProbe(p) ==
    /\ alive /\ pc[p] = "loop"
    /\ \E k \in todo[p], r \in TimedResponses :
         LET sc == checksData[p][k]
             res == checkServerStatus(sc, httpClientDo(httpClient, sc.URL, r))
         IN /\ todo' = [todo EXCEPT ![p] = @ \ {k}]
            /\ answer' = [answer EXCEPT ![p] = r]
            /\ checkResult' = [checkResult EXCEPT ![p] = res]
            /\ checkTime' = [checkTime EXCEPT ![p] = now]
            /\ serverCheck' = [serverCheck EXCEPT ![p] = UpdateStats(sc, res, now)]
            /\ pre' = [pre EXCEPT ![p] = [name |-> sc.Name,
                                          count |-> serverFailureCount[sc.Name],
                                          fault |-> serverSendFaultMessage[sc.Name],
                                          failRun |-> failRun[sc.Name],
                                          lastDU |-> lastDU[sc.Name],
                                          rec |-> sc]]
            /\ probes' = [probes EXCEPT ![p][k] = @ + 1]
            /\ failRun' = [failRun EXCEPT ![sc.Name] = IF res.IsOk THEN 0 ELSE @ + 1]
    /\ notes' = [notes EXCEPT ![p] = {}]
    /\ pc' = [pc EXCEPT ![p] = "ssl"]
    /\ UNCHANGED <<checksData, count, saveErrs, loaded>>
    /\ UNCHANGED <<fileVars, alive, trackerVars, confVars, now, cycles, lastDU, sslSentAt, sslMinGap,
                   sslFailedAt, faultSeen, lockVars, cmd>>

\* cron starts an invocation once the client is configured
TimedStartCycle(p) ==
    /\ cycles < MaxTimedCycles
    /\ p = "c1"
    /\ \A q \in Procs : pc[q] = "idle"
    /\ LoadCycle(p, now)

InitTimed == InitWith(CertStores) /\ alertThreshold = 1

NextTimed ==
    \/ \E sec \in TimeoutSeconds : ConfigureHTTPClient(TimeoutOption(sec))
    \/ \E p \in Procs : TimedStartCycle(p)
    \/ \E p \in Procs : TimedProbe(p)
    \/ \E p \in Procs : TargetStep(p)
    \/ \E p \in Procs : ReuseSave(p)

SpecTimed == InitTimed /\ [][NextTimed]_vars

\* goroutines are scheduled fairly and a sync.Mutex is handed to its waiters
SpecLockFair ==
    /\ SpecLock
    /\ \A p \in Procs : WF_vars(LockSteps(p))
    /\ WF_vars(LockCommand)

\* ------------------------------------------------------------- properties
\* handleServerDown / handleServerUp has returned for the current target
StepEnded(p) == pc[p] \in {"save", "loop"} /\ pre[p].name # ""
\* the save of the current target's step has returned as well
Saved(p) == pc[p] = "loop" /\ pre[p].name # ""
Sent(p, kind) == kind \in Kinds(notes[p])

\* C1: with cycles one after another, a step sends "is down" exactly when the
\* probe failed and the counter, incremented for this failure, is >= the
\* threshold; right after such a step the counter is 0 and the alert flag set
C1_DownExactlyAtThreshold ==
    \A p \in Procs : StepEnded(p) =>
        /\ Sent(p, "down") <=>
             (~checkResult[p].IsOk /\ pre[p].count + 1 >= alertThreshold)
        /\ Sent(p, "down") =>
             (serverFailureCount[pre[p].name] = 0 /\ serverSendFaultMessage[pre[p].name])

C1_Witness ==
    \E p \in Procs : StepEnded(p) /\ Sent(p, "down") /\ pre[p].count = 2 /\ alertThreshold = 3

\* C2: with cycles one after another, a step sends "is up" exactly when the
\* probe succeeded and the alert flag was set; an up always follows a down,
\* and a success after a failure run shorter than the threshold sends neither
\* down nor up, nor did the run
C2_UpExactlyWhenArmed ==
    \A p \in Procs : StepEnded(p) =>
        /\ Sent(p, "up") <=> (checkResult[p].IsOk /\ pre[p].fault)
        /\ Sent(p, "up") => pre[p].lastDU.kind = "down"
        /\ (checkResult[p].IsOk /\ pre[p].failRun >= 1 /\ pre[p].failRun < alertThreshold) =>
             (~Sent(p, "up") /\ ~Sent(p, "down") /\ pre[p].lastDU.kind # "down")

C2_Witness ==
    \E p \in Procs : StepEnded(p) /\ Sent(p, "up") /\ pre[p].lastDU.kind = "down"

C4_SSLWarningsADayApart ==
    \A n \in Names : sslMinGap[n] >= DedupHours

\* C5: every stored record has 0 <= SuccessfulChecks <= TotalChecks
CountersOrdered(r) == 0 <= r.SuccessfulChecks /\ r.SuccessfulChecks <= r.TotalChecks
C5_SuccessfulAtMostTotal ==
    /\ \A n \in DOMAIN store : CountersOrdered(store[n])
    /\ \A p \in Procs : \A n \in DOMAIN checksData[p] : CountersOrdered(checksData[p][n])

C5_Witness ==
    \E n \in DOMAIN store : 0 < store[n].SuccessfulChecks
                            /\ store[n].SuccessfulChecks < store[n].TotalChecks

\* C6: every stored record has Availability = SuccessfulChecks / TotalChecks
\* * 100 when TotalChecks > 0, and 0 when TotalChecks = 0
AvailabilityDerived(r) ==
    IF r.TotalChecks > 0
      THEN r.Availability.num * r.TotalChecks = r.SuccessfulChecks * 100 * r.Availability.den
      ELSE r.Availability.num = 0
C6_AvailabilityFromCounters ==
    /\ \A n \in DOMAIN store : AvailabilityDerived(store[n])
    /\ \A p \in Procs : \A n \in DOMAIN checksData[p] : AvailabilityDerived(checksData[p][n])
    /\ \A p \in Procs : pc[p] \notin {"idle", "loop"} => AvailabilityDerived(serverCheck[p])

C6_Witness ==
    \E n \in DOMAIN store : store[n].TotalChecks = 2 /\ store[n].SuccessfulChecks = 1

\* C7: a step sends the slow-response warning exactly when the probe
\* succeeded, the record's ResponseTimeThreshold is > 0 and the response time
\* is greater than it; nothing suppresses a repetition
C7_SlowExactlyAboveThreshold ==
    \A p \in Procs : StepEnded(p) =>
        (Sent(p, "slow") <=>
           /\ checkResult[p].IsOk
           /\ pre[p].rec.ResponseTimeThreshold > 0
           /\ checkResult[p].ResponseTime > pre[p].rec.ResponseTimeThreshold)

C7_Witness ==
    \E p \in Procs : /\ StepEnded(p) /\ Sent(p, "slow")
                     /\ pre[p].rec.IsOk
                     /\ pre[p].rec.LastResponseTime > pre[p].rec.ResponseTimeThreshold

\* C8 as stated: the probe is ok exactly when a response came, its status is
\* in [200,300) and ExpectedContent is empty or occurs in the body; a failure
\* has an error message, a success has none
ProbeOkWhen(r, sc, bodyFound) ==
    /\ r.kind = "resp"
    /\ r.status >= 200 /\ r.status < 300
    /\ (sc.ExpectedContent = NoContent \/ bodyFound)
ProbeVerdict(p, bodyFound) ==
    /\ checkResult[p].IsOk <=> ProbeOkWhen(answer[p], pre[p].rec, bodyFound)
    /\ ~checkResult[p].IsOk => checkResult[p].ErrorMessage # ""
    /\ checkResult[p].IsOk => checkResult[p].ErrorMessage = ""
C8_OkIffStatusAndContent ==
    \A p \in Procs : pc[p] = "ssl" =>
        ProbeVerdict(p, Contains(answer[p].body, pre[p].rec.ExpectedContent))

\* C8 amended: ... or the body was read without error and contains it
C8_OkIffStatusAndBodyRead ==
    \A p \in Procs : pc[p] = "ssl" =>
        ProbeVerdict(p, ~answer[p].readErr
                        /\ Contains(answer[p].body, pre[p].rec.ExpectedContent))

C8_Witness ==
    \E p \in Procs : /\ pc[p] = "ssl"
                     /\ answer[p].kind = "resp" /\ answer[p].status = 299
                     /\ answer[p].readErr
                     /\ pre[p].rec.ExpectedContent = ContentOk
                     /\ Contains(answer[p].body, ContentOk)
                     /\ ~checkResult[p].IsOk

\* C9: a notification whose Send failed leaves the statistics updated and
\* the record saved, and the alert armed: after a down message that failed
\* to send the flag is set and the counter 0, and the next success sends the
\* recovery
SendFailed(p) == \E x \in notes[p] : ~x.ok
C9_SendFailureChangesNothing ==
    \A p \in Procs :
        /\ (Saved(p) /\ SendFailed(p)) =>
             /\ checksData[p][pre[p].name].TotalChecks = pre[p].rec.TotalChecks + 1
             /\ checksData[p][pre[p].name].IsOk = checkResult[p].IsOk
             /\ pre[p].name \notin saveErrs[p] => (fileOk /\ store = checksData[p])
        /\ (StepEnded(p) /\ Note("down", FALSE) \in notes[p]) =>
             (serverSendFaultMessage[pre[p].name] /\ serverFailureCount[pre[p].name] = 0)
        /\ (StepEnded(p) /\ checkResult[p].IsOk /\ pre[p].lastDU = Note("down", FALSE)) =>
             Sent(p, "up")

C9_Witness ==
    \E p \in Procs : /\ Saved(p) /\ Note("up", FALSE) \in notes[p]
                     /\ pre[p].lastDU = Note("down", FALSE)
                     /\ pre[p].name \notin saveErrs[p]
                     /\ store = checksData[p]

\* C10: one invocation probes every loaded target exactly once and adds
\* exactly 1 to its TotalChecks, whatever happened to the other targets; a
\* failed save of one target does not stop the later ones
CycleOver(p) == pc[p] = "loop" /\ todo[p] = {}
C10_EveryTargetOncePerCycle ==
    \A p \in Procs :
        /\ \A n \in Names : probes[p][n] <= 1
        /\ CycleOver(p) =>
             /\ \A n \in DOMAIN loaded[p] :
                  /\ probes[p][n] = 1
                  /\ checksData[p][n].TotalChecks = loaded[p][n].TotalChecks + 1
             /\ (pre[p].name # "" /\ pre[p].name \notin saveErrs[p]) =>
                  (fileOk /\ store = checksData[p])

C10_Witness ==
    \E p \in Procs : /\ CycleOver(p)
                     /\ \E n \in saveErrs[p] : n # pre[p].name
                     /\ pre[p].name \notin saveErrs[p]
                     /\ probes[p][pre[p].name] = 1
                     /\ store = checksData[p]

\* C11: the process is never ended from inside a cycle: a cycle that starts
\* on a store file that cannot be read or parsed loads an empty collection
\* and goes on, so the process stays alive in every state
C11_LoadNeverAborts == alive

\* the targets whose step (probe, notifications, save) of the running
\* invocation p has returned, and whose own save reported no error
StepsCompleted(p) ==
    {n \in DOMAIN loaded[p] :
        /\ probes[p][n] = 1
        /\ (pc[p] = "loop" \/ n # pre[p].name)
        /\ n \notin saveErrs[p]}

\* C12: at every point of a cycle (any of them may be the point of a crash)
\* the store file holds the update of every target whose step completed
\* earlier in that cycle
C12_CompletedStepsAreStored ==
    \A p \in Procs : \A n \in StepsCompleted(p) :
        fileOk /\ n \in DOMAIN store /\ store[n] = checksData[p][n]

\* C13 as stated: a failed Send is never followed by a second Send of the
\* same message that a delivered one would not have been followed by: no
\* SSL-expiry warning is handed to Send within the 24 hours after one whose
\* Send failed, and a failed down or recovery message leaves the tracker as
\* a delivered one does
TrackerAsDelivered(p) ==
    LET n == pre[p].name
    IN /\ Note("down", FALSE) \in notes[p] =>
            (serverSendFaultMessage[n] /\ serverFailureCount[n] = 0)
       /\ Note("up", FALSE) \in notes[p] =>
            (~serverSendFaultMessage[n] /\ serverFailureCount[n] = 0)
C13_FailedSendNeverRetried ==
    \A p \in Procs : StepEnded(p) =>
        /\ TrackerAsDelivered(p)
        /\ Note("ssl", TRUE) \in notes[p] =>
             (sslFailedAt[pre[p].name] = ZeroTime
                \/ now - sslFailedAt[pre[p].name] > DedupHours)

\* C13 amended: a failed down or recovery message leaves the tracker as a
\* delivered one does; an SSL-expiry warning whose Send failed leaves
\* LastSSLNotification as it was (a delivered one sets it to the check time),
\* so a later cycle sends the warning again
C13_OnlySSLWarningIsSentAgain ==
    \A p \in Procs : StepEnded(p) =>
        /\ TrackerAsDelivered(p)
        /\ Note("ssl", FALSE) \in notes[p] =>
             checksData[p][pre[p].name].LastSSLNotification = pre[p].rec.LastSSLNotification
        /\ Note("ssl", TRUE) \in notes[p] =>
             checksData[p][pre[p].name].LastSSLNotification = checkTime[p]

C13_Witness ==
    \E p \in Procs : /\ StepEnded(p) /\ Note("ssl", TRUE) \in notes[p]
                     /\ sslFailedAt[pre[p].name] # ZeroTime
                     /\ now - sslFailedAt[pre[p].name] < DedupHours
                     /\ pre[p].rec.LastSSLNotification = ZeroTime

\* the certificate the server presents is due for a warning at this step
ServedCertDue(p) ==
    LET c == getSSLExpiryDate(serverCheck[p].URL, answer[p])
    IN /\ c # ZeroTime
       /\ SSLWarningDue([serverCheck[p] EXCEPT !.SSLExpiryDate = c], globalSSLExpiryThreshold, now)

\* C19 as stated: the SSL branch does not depend on the down/up branch: a
\* step sends the SSL-expiry warning exactly when the server's certificate is
\* due, whether the probe failed (down branch) or succeeded (up branch)
C19_SSLIndependentOfOutcome ==
    [][\A p \in Procs : (pc[p] = "ssl" /\ pc'[p] \in {"up", "down"}) =>
          (("ssl" \in Kinds(notes'[p])) <=> ServedCertDue(p))]_vars

\* C19 amended: an SSL-expiry warning is sent only in a step whose probe
\* succeeded; it can go with a recovery notification, never with a down alert
C19_SSLOnlyWithSuccess ==
    \A p \in Procs : (StepEnded(p) /\ Sent(p, "ssl")) =>
        (checkResult[p].IsOk /\ ~Sent(p, "down"))

C19_Witness ==
    \E p \in Procs : StepEnded(p) /\ Sent(p, "ssl") /\ Sent(p, "up")

\* C20: an SSL-expiry warning is sent only when the certificate's expiry is
\* not in the past and floor(hours to expiry / 24) is below the threshold in
\* force, the record's SSLExpiryThreshold when > 0 and the global one otherwise
C20_SSLWarningOnlyInsideWindow ==
    \A p \in Procs : (StepEnded(p) /\ Sent(p, "ssl")) =>
        LET rec == checksData[p][pre[p].name]
            threshold == IF pre[p].rec.SSLExpiryThreshold > 0
                           THEN pre[p].rec.SSLExpiryThreshold
                           ELSE globalSSLExpiryThreshold
            hours == rec.SSLExpiryDate - now
        IN /\ hours >= 0
           /\ 0 <= hours \div HoursPerDay
           /\ hours \div HoursPerDay < threshold

\* the store shows the change of the last command handled
ReflectsCommand ==
    IF cmd.op = "add" THEN cmd.name \in DOMAIN store
    ELSE IF cmd.op = "remove" THEN cmd.name \notin DOMAIN store
    ELSE IF cmd.op = "removeall" THEN DOMAIN store = {}
    ELSE cmd.name \in DOMAIN store /\ store[cmd.name] = EditOf(cmd.op, store[cmd.name])

\* C17: when a command that changed the store completed while a cycle was in
\* progress, then once the cycle has finished too the store reflects the
\* command: the added target is present, the removed one absent, the edited
\* field has its new value
C17_StoreReflectsCommand ==
    (/\ alive /\ fileOk
     /\ ~CycleRunning
     /\ cmd.pc = "idle" /\ cmd.reply = "done" /\ cmd.inCycle) => ReflectsCommand

\* C18: from one stored state to the next, TotalChecks and SuccessfulChecks
\* of a target that stays registered never decrease
C18_StoredCountersNeverDecrease ==
    [][(fileOk /\ fileOk') =>
         \A n \in (DOMAIN store) \cap (DOMAIN store') :
             /\ store'[n].TotalChecks >= store[n].TotalChecks
             /\ store'[n].SuccessfulChecks >= store[n].SuccessfulChecks]_vars

\* the positions of PerformCheck at which the two tracker maps are read or written
MapPositions == {"logMaps", "counting", "arming", "clearing", "clearFault", "clearCount"}

\* C14: an invocation that is reading or writing serverFailureCount or
\* serverSendFaultMessage holds stateMu
C14_MapAccessUnderLock ==
    \A p \in Procs : pc[p] \in MapPositions => stateMu = p

\* the positions of PerformCheck at which it probes, sends a notification,
\* or loads or saves the store (waiting for the store lock included)
IOPositions ==
    {"wantRead", "reading", "loop", "ssl", "up", "sendDown", "sendUp", "wantSave", "writing"}

\* C15: stateMu is not held by an invocation that is probing, sending a
\* notification, or loading or saving the store
C15_NoIOUnderTrackerLock ==
    \A p \in Procs : pc[p] \in IOPositions => stateMu # p

C15_Witness ==
    \E p, q \in Procs : p # q /\ pc[p] = "sendDown" /\ pc[q] = "counting" /\ stateMu = q

\* the callers inside the file access of ReadChecksData or SaveChecksData
FileUsers ==
    {p \in Procs : pc[p] \in {"reading", "writing"}}
      \cup (IF cmd.pc \in {"reading", "writing"} THEN {"cmd"} ELSE {})

\* a caller waiting for the store lock stays waiting or enters its file access
WaitersProceed ==
    /\ \A p \in Procs :
         /\ pc[p] = "wantRead" => pc'[p] \in {"wantRead", "reading"}
         /\ pc[p] = "wantSave" => pc'[p] \in {"wantSave", "writing"}
    /\ cmd.pc = "wantRead" => cmd'.pc \in {"wantRead", "reading"}
    /\ cmd.pc = "wantSave" => cmd'.pc \in {"wantSave", "writing"}

\* C16: at no time are two callers (invocations or command handlers) inside
\* the file access of ReadChecksData / SaveChecksData, and a caller that
\* finds the lock taken waits and then enters: it is never turned away
C16_StoreAccessExclusive ==
    /\ [](Cardinality(FileUsers) <= 1)
    /\ [][WaitersProceed]_vars
    /\ \A p \in Procs :
         /\ (pc[p] = "wantRead") ~> (pc[p] = "reading")
         /\ (pc[p] = "wantSave") ~> (pc[p] = "writing")
    /\ (cmd.pc = "wantRead") ~> (cmd.pc = "reading")
    /\ (cmd.pc = "wantSave") ~> (cmd.pc = "writing")

C16_Witness ==
    \E p \in Procs : pc[p] = "writing" /\ mutex = p /\ cmd.pc = "wantRead"

\* C30: a SaveChecksData that returns an error leaves the persisted collection
\* exactly as the last successful save left it
C30_FailedSaveKeepsFile ==
    [][\A p \in Procs :
          (pc[p] = "save" /\ pc'[p] = "loop" /\ pre[p].name \in saveErrs'[p]) =>
              (store' = store /\ fileOk' = fileOk)]_vars

\* the record a step hands to the save
StepRecord(p) == checksData[p][pre[p].name]

\* C22: a step sets IsOk and LastResponseTime from the probe; a success stamps
\* LastSuccess and counts in SuccessfulChecks and leaves LastFailure, a failure
\* stamps LastFailure and leaves LastSuccess and SuccessfulChecks; Name, URL,
\* ExpectedContent and the two thresholds stay as loaded
C22_StepFrame ==
    \A p \in Procs :
      /\ (pc[p] = "ssl" /\ answer[p].kind = "resp") =>
            serverCheck[p].LastResponseTime = answer[p].latency
      /\ StepEnded(p) =>
        LET r == StepRecord(p)
            r0 == pre[p].rec
            res == checkResult[p]
        IN /\ r.IsOk = res.IsOk
           /\ r.LastResponseTime = res.ResponseTime
           /\ res.IsOk => /\ r.LastSuccess = checkTime[p]
                          /\ r.SuccessfulChecks = r0.SuccessfulChecks + 1
                          /\ r.LastFailure = r0.LastFailure
           /\ ~res.IsOk => /\ r.LastFailure = checkTime[p]
                           /\ r.LastSuccess = r0.LastSuccess
                           /\ r.SuccessfulChecks = r0.SuccessfulChecks
           /\ r.Name = r0.Name /\ r.URL = r0.URL
           /\ r.ExpectedContent = r0.ExpectedContent
           /\ r.ResponseTimeThreshold = r0.ResponseTimeThreshold
           /\ r.SSLExpiryThreshold = r0.SSLExpiryThreshold

\* a step after a success and a failure of the same target, with a slow answer
C22_Witness ==
    \E p \in Procs : /\ StepEnded(p) /\ ~checkResult[p].IsOk
                     /\ checkResult[p].ResponseTime = SlowMs
                     /\ pre[p].rec.SuccessfulChecks > 0
                     /\ pre[p].rec.LastSuccess # ZeroTime
                     /\ pre[p].rec.ResponseTimeThreshold > 0

C28_OneAlertPerCrossing ==
    [][\A p \in Procs :
          (alertThreshold > 1 /\ pc[p] = "counting" /\ pc'[p] = "sendDown") =>
              serverFailureCount[serverCheck[p].Name] < alertThreshold]_vars

\* C29: an armed alert is observed by exactly one handleServerUp: no second
\* invocation reads wasFault = true before the alert is armed again, the one
\* that finds the flag set sends the recovery, and when it unlocks the flag is
\* false and the counter 0
C29_OneRecoveryPerArming ==
    /\ [](\A n \in Names : faultSeen[n] <= 1)
    /\ [][\A p \in Procs :
            LET n == serverCheck[p].Name
            IN /\ (pc[p] = "clearing" /\ pc'[p] # "clearing") =>
                    (pc'[p] = "clearFault" <=> serverSendFaultMessage[n])
               /\ (pc[p] \in {"clearFault", "clearCount"} /\ pc'[p] # pc[p]) =>
                    /\ ~serverSendFaultMessage'[n] /\ serverFailureCount'[n] = 0
                    /\ pc'[p] = "sendUp" <=> pc[p] = "clearFault"]_vars

\* two overlapping invocations probed the target successfully while its alert
\* was armed; one is about to send the recovery, the other goes on without
C29_Witness ==
    \E p, q \in Procs :
        /\ p # q /\ pc[p] = "sendUp" /\ pc[q] \in {"wantSave", "writing"}
        /\ pre[p].fault /\ pre[q].fault
        /\ checkResult[q].IsOk /\ ~Sent(q, "up")
        /\ serverCheck[p].Name = serverCheck[q].Name

\* ---------------------------------------------------------------------- C25
\* C25: a "Server ... removed" confirmation is sent only after the save that
\* removes the record has succeeded, on the /remove command and on the inline
\* "remove" button alike: the step that sends it has written the collection
\* without the record to a readable file
C25_RemovedOnlyAfterSave ==
    [][(cmd.pc = "loaded" /\ cmd.op = "remove" /\ cmd'.pc = "idle" /\ cmd'.reply = "done")
          => (fileOk' /\ store' = cmd.data /\ cmd.name \notin DOMAIN store')]_vars

\* ---------------------------------------------------------------------- C23
\* the user name is in the superuser list: it equals an entry, letter case
\* ignored, the entry written with or without a leading "/"
WithoutSlash(s) == IF Len(s) > 0 /\ Head(s) = "/" THEN Tail(s) ELSE s
Lowered(s) == [i \in 1..Len(s) |-> ToLower(s[i])]
InSuperList(userName) ==
    \E super \in SuperUsers :
        Lowered(userName) \in {Lowered(super), Lowered(WithoutSlash(super))}
NotSuperUser(from) == from.nil \/ ~InSuperList(from.UserName)

\* C23: an update from a user who is not in the superuser list (command
\* message or inline-button callback query), or a message with no sender,
\* never changes the stored collection, starts no handler, and for command
\* messages no reply is sent either; a handler between its load and its save
\* works for a superuser
C23_UnauthorisedIgnored ==
    /\ [](cmd.pc # "idle" => ~NotSuperUser(cmd.from))
    /\ [][(cmd'.served = cmd.served + 1 /\ NotSuperUser(cmd'.from))
            => /\ store' = store /\ fileOk' = fileOk /\ alive' = alive
               /\ cmd'.pc = "idle"
               /\ cmd'.kind = "message" => cmd'.reply = ""]_vars

\* the inline "remove" button of a stored server pressed by a user whose name
\* is the tail of a superuser's
C23_Witness ==
    /\ cmd.served > 0 /\ cmd.kind = "callback" /\ cmd.op = "remove"
    /\ cmd.from = User(<<"d">>) /\ NotSuperUser(cmd.from)
    /\ cmd.name \in DOMAIN store /\ cmd.pc = "idle"

\* ---------------------------------------------------------------------- C24
\* the handler that has just taken update number cmd.served + 1 from a superuser
Taken(op) == cmd'.served = cmd.served + 1 /\ cmd'.op = op /\ Authorised(cmd'.from)
\* the handler of op ends with a successful save
SavedBy(op) == cmd.pc = "loaded" /\ cmd.op = op /\ cmd'.pc = "idle" /\ cmd'.reply = "done"

\* C24: /add with a name that already exists replies "Server already exists"
\* and leaves the stored collection unchanged; /add of a new name goes on to
\* its save, and the successful save stores exactly one more record, with
\* that name and URL, IsOk false, no timestamps, settings or counts, next to
\* every record the handler loaded, each as it was loaded
C24_AddCreatesOneRecord ==
    [][/\ (Taken("add") /\ cmd'.kind = "message" /\ cmd'.name \in DOMAIN store)
            => /\ cmd'.reply = "exists" /\ cmd'.pc = "idle"
               /\ store' = store /\ fileOk' = fileOk
       /\ (Taken("add") /\ cmd'.name \notin DOMAIN store)
            => cmd'.pc = "loaded" /\ cmd'.read = store /\ store' = store
       /\ SavedBy("add")
            => /\ fileOk'
               /\ cmd.name \notin DOMAIN cmd.read
               /\ DOMAIN store' = DOMAIN cmd.read \cup {cmd.name}
               /\ \A m \in DOMAIN cmd.read : store'[m] = cmd.read[m]
               /\ LET rec == store'[cmd.name]
                  IN /\ rec.Name = cmd.name /\ rec.URL = URLOf(cmd.name) /\ ~rec.IsOk
                     /\ rec.TotalChecks = 0 /\ rec.SuccessfulChecks = 0
                     /\ rec.LastResponseTime = 0 /\ rec.Availability = ZeroAvailability
                     /\ rec.LastSuccess = ZeroTime /\ rec.LastFailure = ZeroTime
                     /\ rec.ResponseTimeThreshold = 0 /\ rec.ExpectedContent = NoContent
                     /\ rec.SSLExpiryThreshold = 0 /\ rec.SSLExpiryDate = ZeroTime
                     /\ rec.LastSSLNotification = ZeroTime]_vars

\* b has been added next to a, which keeps the threshold it was stored with
C24_Witness ==
    /\ cmd.pc = "idle" /\ cmd.op = "add" /\ cmd.reply = "done" /\ cmd.name = "b"
    /\ fileOk /\ DOMAIN store = {"a", "b"}
    /\ store["a"].ResponseTimeThreshold = LimitMs
    /\ store["b"] = NewServerCheck("b", URLOf("b"))

\* ---------------------------------------------------------------------- C26
EditOps == {"setresponsetime", "setcontent", "setsslthreshold"}
\* the fields of a record other than the one /op sets
OtherFields(op) ==
    {"Name", "URL", "LastFailure", "LastSuccess", "IsOk", "ExpectedContent",
     "ResponseTimeThreshold", "LastResponseTime", "SSLExpiryDate", "SSLExpiryThreshold",
     "LastSSLNotification", "Availability", "TotalChecks", "SuccessfulChecks"}
    \ {IF op = "setresponsetime" THEN "ResponseTimeThreshold"
       ELSE IF op = "setcontent" THEN "ExpectedContent" ELSE "SSLExpiryThreshold"}

\* C26: /setresponsetime, /setcontent and /setsslthreshold on an unknown name
\* reply "not found" and leave the stored collection unchanged; on an existing
\* name the successful save stores the records the handler loaded, the
\* addressed record with every field other than the addressed one as loaded
\* and the addressed one set to the command's value
C26_EditChangesOneField ==
    [][\A op \in EditOps :
        /\ (Taken(op) /\ cmd'.name \notin DOMAIN store)
             => /\ cmd'.reply = "notfound" /\ cmd'.pc = "idle"
                /\ store' = store /\ fileOk' = fileOk
        /\ (Taken(op) /\ cmd'.name \in DOMAIN store)
             => cmd'.pc = "loaded" /\ cmd'.read = store /\ store' = store
        /\ SavedBy(op)
             => /\ fileOk'
                /\ DOMAIN store' = DOMAIN cmd.read
                /\ \A m \in DOMAIN cmd.read \ {cmd.name} : store'[m] = cmd.read[m]
                /\ \A f \in OtherFields(op) : store'[cmd.name][f] = cmd.read[cmd.name][f]
                /\ op = "setresponsetime" => store'[cmd.name].ResponseTimeThreshold = FastMs
                /\ op = "setcontent" => store'[cmd.name].ExpectedContent = BodyUpper
                /\ op = "setsslthreshold" => store'[cmd.name].SSLExpiryThreshold = SSLDays]_vars

\* /setcontent has replaced b's expected content; b keeps what else it was
\* stored with, and a is as it was
C26_Witness ==
    /\ cmd.pc = "idle" /\ cmd.op = "setcontent" /\ cmd.reply = "done" /\ cmd.name = "b"
    /\ fileOk /\ DOMAIN store = {"a", "b"}
    /\ store["b"].ExpectedContent = BodyUpper /\ store["b"].URL = URLOf("b")
    /\ store["a"] = InitRecord("a", LimitMs, NoContent)

\* ---------------------------------------------------------------------- C21
\* C21: a tracker entry left behind by a removed record causes no
\* notification: a record that was never probed before this step (a fresh
\* registration; commands arrive between invocations only) gets no recovery
\* notification, and a down alert goes to a record only when its own failed
\* probes, this one included, number at least alertThreshold
C21_OrphanEntryHarmless ==
    \A p \in Procs : StepEnded(p) =>
        /\ Sent(p, "up") => pre[p].rec.TotalChecks > 0
        /\ Sent(p, "down") =>
             pre[p].rec.TotalChecks - pre[p].rec.SuccessfulChecks + 1 >= alertThreshold

\* ---------------------------------------------------------------------- C31
\* C31: the certificate is inspected only after the probe has otherwise
\* succeeded: in a step whose probe failed, and in every step of a target
\* whose URL does not start with https://, the result carries no expiry date,
\* the record's SSLExpiryDate and LastSSLNotification are as loaded and no
\* SSL-expiry warning is sent
C31_NoCertWithoutSuccess ==
    \A p \in Procs :
        (StepEnded(p) /\ (~checkResult[p].IsOk \/ pre[p].rec.URL[1] # "https://")) =>
            /\ checkResult[p].SSLExpiryDate = ZeroTime
            /\ StepRecord(p).SSLExpiryDate = pre[p].rec.SSLExpiryDate
            /\ StepRecord(p).LastSSLNotification = pre[p].rec.LastSSLNotification
            /\ ~Sent(p, "ssl")

\* a rejected status (the server presents a certificate that expires within
\* a day) for an https target whose stored expiry date would be due for a
\* warning again
C31_Witness ==
    \E p \in Procs :
        /\ StepEnded(p) /\ ~checkResult[p].IsOk /\ checkResult[p].StatusCode = 500
        /\ pre[p].rec.URL[1] = "https://"
        /\ pre[p].rec.LastSSLNotification # ZeroTime
        /\ SSLWarningDue(pre[p].rec, globalSSLExpiryThreshold, now)

\* ---------------------------------------------------------------------- C32
\* the certificate stored by this step is inside the warning window
InsideWindow(p) ==
    /\ checkResult[p].SSLExpiryDate # ZeroTime
    /\ DaysToExpiry(StepRecord(p), now) >= 0
    /\ DaysToExpiry(StepRecord(p), now) < SSLThresholdOf(StepRecord(p), globalSSLExpiryThreshold)

\* C32: shouldSendSSLNotification(last) is true exactly when last is the zero
\* time or strictly more than 24 hours before now: false 1, 23 and exactly 24
\* hours after a notification, true after 25 and 48 hours; a step warns about
\* a certificate inside the window exactly in that case, and sets
\* LastSSLNotification to the check time when the warning was sent
\* successfully, leaving it as loaded otherwise
C32_WarnAgainAfterADay ==
    /\ \A last \in TimePoints :
         /\ ~shouldSendSSLNotification(last, last + 1)
         /\ ~shouldSendSSLNotification(last, last + 23)
         /\ ~shouldSendSSLNotification(last, last + 24)
         /\ shouldSendSSLNotification(last, last + 25)
         /\ shouldSendSSLNotification(last, last + 48)
         /\ shouldSendSSLNotification(ZeroTime, last)
    /\ \A p \in Procs : StepEnded(p) =>
         LET last == pre[p].rec.LastSSLNotification
         IN /\ InsideWindow(p) =>
                 (Sent(p, "ssl") <=> (last = ZeroTime \/ now - last > 24))
            /\ StepRecord(p).LastSSLNotification =
                 IF Note("ssl", TRUE) \in notes[p] THEN checkTime[p] ELSE last

\* exactly 24 hours after the last warning the certificate is still inside
\* the window and no warning is sent
C32_Witness ==
    \E p \in Procs :
        /\ StepEnded(p) /\ InsideWindow(p) /\ ~Sent(p, "ssl")
        /\ pre[p].rec.LastSSLNotification # ZeroTime
        /\ now - pre[p].rec.LastSSLNotification = 24

\* ---------------------------------------------------------------------- C33
\* no invocation is inside a target step
NoStepInProgress == \A p \in Procs : pc[p] \in {"idle", "loop"}

\* C33: with alertThreshold >= 1, whenever no cycle step is in progress every
\* target's consecutive-failure counter is >= 0 and below alertThreshold; the
\* handler of a successful probe leaves the counter at 0, and only the
\* handler of a failed probe raises it
C33_CounterBelowThreshold ==
    /\ [](NoStepInProgress =>
            \A n \in Names : 0 <= serverFailureCount[n] /\ serverFailureCount[n] < alertThreshold)
    /\ [][\A p \in Procs :
            /\ (pc[p] \in {"clearFault", "clearCount"} /\ pc'[p] # pc[p])
                 => serverFailureCount'[serverCheck[p].Name] = 0
            /\ \A n \in Names :
                 serverFailureCount'[n] > serverFailureCount[n]
                   => \E q \in Procs : /\ pc[q] = "counting" /\ pc'[q] # "counting"
                                       /\ serverCheck[q].Name = n
                                       /\ ~checkResult[q].IsOk]_vars

\* after an alert restarted the counter, one more failure has been counted
C33_Witness ==
    /\ NoStepInProgress /\ alertThreshold = 2
    /\ serverFailureCount["a"] = 1 /\ serverSendFaultMessage["a"]
    /\ \E p \in Procs : StepEnded(p) /\ ~checkResult[p].IsOk

\* ---------------------------------------------------------------------- C34
\* every key of the collection is the Name of the record stored under it
KeysAreNames(data) == \A k \in DOMAIN data : data[k].Name = k

\* C34: in every stored collection, and in every copy a cycle or a handler
\* holds, each key equals the Name of its record; so the write-back of a
\* cycle step, indexed by the record's Name, adds no entry, and a running
\* cycle's collection has the keys it was loaded with
C34_KeysAreNames ==
    /\ [](/\ KeysAreNames(store)
          /\ KeysAreNames(cmd.data)
          /\ \A p \in Procs : /\ KeysAreNames(checksData[p])
                              /\ pc[p] # "idle" => DOMAIN checksData[p] = DOMAIN loaded[p])
    /\ [][\A p \in Procs : (pc[p] = "ssl" /\ pc'[p] # "ssl")
            => /\ DOMAIN checksData'[p] = DOMAIN checksData[p]
               /\ checksData'[p][serverCheck[p].Name].Name = serverCheck[p].Name]_vars

\* a cycle has written back the record a command added before it
C34_Witness ==
    /\ cmd.op = "add" /\ cmd.reply = "done" /\ cmd.pc = "idle"
    /\ \E p \in Procs : /\ StepEnded(p) /\ pre[p].name = cmd.name
                        /\ Cardinality(DOMAIN checksData[p]) = 2
                        /\ StepRecord(p).TotalChecks = 1

\* ---------------------------------------------------------------------- C35
\* C35: alert state lives only in memory: a restart of the process leaves
\* every counter 0 and every alert flag false and does not touch the stored
\* collection; so a recovery notification is sent only after a down alert of
\* the running process, and a down alert only once the failures the running
\* process has counted in a row reach alertThreshold
C35_RestartClearsAlertState ==
    /\ [][restarts' # restarts =>
            /\ \A n \in Names : serverFailureCount'[n] = 0 /\ ~serverSendFaultMessage'[n]
            /\ store' = store /\ fileOk' = fileOk]_vars
    /\ [](\A p \in Procs : StepEnded(p) =>
            /\ Sent(p, "up") => pre[p].lastDU.kind = "down"
            /\ Sent(p, "down") => pre[p].failRun + 1 >= alertThreshold)

\* with threshold 1 the stored record of the target shows a failed probe (its
\* step alerted) from before the restart; the first success after the restart
\* sends no recovery, and the stored counts go on from where they were
C35_Witness ==
    \E p \in Procs :
        /\ restarts = 1 /\ alertThreshold = 1
        /\ StepEnded(p) /\ checkResult[p].IsOk /\ ~Sent(p, "up")
        /\ ~pre[p].rec.IsOk /\ pre[p].rec.TotalChecks = 1
        /\ StepRecord(p).TotalChecks = 2


\* an invocation has probed its target and not yet finished the step
Probed(p) == pc[p] \notin {"idle", "loop"} /\ answer[p].kind = "resp"

\* the client holds a timeout main can pass and half of it, rounded down,
\* as the handshake timeout
ClientAsConfigured ==
    /\ httpClient.Timeout \in {TimeoutOption(sec) : sec \in TimeoutSeconds}
    /\ 2 * httpClient.TLSHandshakeTimeout \in {httpClient.Timeout, httpClient.Timeout - 1}

\* the request of a probe ends at the client's timeouts: a successful probe
\* had its handshake and its response inside them, and no request lasts longer
RequestWithinTimeouts ==
    \A p \in Procs : Probed(p) =>
        LET url == pre[p].rec.URL
            r == answer[p]
        IN /\ checkResult[p].IsOk =>
                /\ r.latency <= httpClient.Timeout
                /\ url[1] = "https://" => r.handshake <= httpClient.TLSHandshakeTimeout
           /\ HandshakeTook(httpClient, url, r) <= httpClient.TLSHandshakeTimeout
           /\ RequestTook(httpClient, url, r) <= httpClient.Timeout

\* the certificate dial of a probe does not outlast the client's timeout
DialWithinTimeout ==
    \A p \in Procs : Probed(p) =>
        DialTook(httpClient, pre[p].rec, answer[p]) <= httpClient.Timeout

====
